---- MODULE Spec2Model ----
(***************************************************************************)
(* Aura API: phone/OTP authentication, registration, the social graph, the *)
(* image upload pipeline, the leaderboard and the image fetch helper,      *)
(* modelled from the NestJS services and the Prisma schema.                *)
(*                                                                         *)
(* Every subsystem has its own specification over the shared variables:    *)
(*   SpecOtp          sendOtp / verifyOtp / OTP cleanup, with a clock      *)
(*   SpecVerify       verifyOtp requests side by side                      *)
(*   SpecSend         sendOtp under every Twilio and nodeEnv configuration *)
(*   SpecUsers        register and the test user of the upload test route  *)
(*   SpecAuth         sendOtp, verifyOtp and register together             *)
(*   SpecSocial       followUser / unfollowUser                            *)
(*   SpecUpload       uploadImage / deleteImage                            *)
(*   SpecLikes        likeAura / unlikeAura / shareAura on the auras table *)
(*   SpecStreak       getUserStats and its scan streak, with a clock       *)
(*   SpecFeed         getFollowingFeed beside followUser / unfollowUser    *)
(*   SpecLeaderboard  getLeaderboard over the fetched users                *)
(*   SpecTopTen       getLeaderboard over more than ten ranked users       *)
(*   SpecFetch        fetchImageAsBase64 and its retry loop                *)
(* A handler that awaits between two database calls is split at the await, *)
(* so that other requests interleave exactly where the event loop lets     *)
(* them.                                                                   *)
(***************************************************************************)
EXTENDS Integers, Sequences, FiniteSets, TLC

(***************************************************************************)
(* Bounds of the model and constants of the program                        *)
(***************************************************************************)
\* minutes the clock advances in one Tick
ClockStep == 10
\* the clock stops here
MaxTime == 40
\* OTP rows created in one behaviour
MaxOtps == 2
\* 10 * 60 * 1000 ms, in minutes
OtpTtlMinutes == 10
\* 30 * 60 * 1000 ms, in minutes
CleanupAgeMinutes == 30

Phones == {"+111", "+222"}
Codes == {"100000", "999999"}
\* request slots that run verifyOtp
OtpCalls == {1, 2}
NoId == 0
\* User rows created by register in one behaviour
MaxUsers == 3
\* phone numbers register is called with
RegPhones == {"+111", "+1234567890"}
\* request slots that run register or the test-upload endpoint
RegCalls == {1, 2}
\* Follow rows created in one behaviour
MaxFollows == 2
\* request slots that run followUser or unfollowUser
SocCalls == {1, 2}
\* Cloudinary assets stored (and so Image rows created) in one behaviour
MaxAssets == 2
\* upload.maxFileSize: parseInt(process.env.MAX_FILE_SIZE, 10) || 10485760
MaxFileSize == 10485760
\* confidence: parsed.confidence || 0.75, in thousandths
DefaultConfidence == 750
\* request slots that run uploadImage or deleteImage, and those of them that
\* run uploadImage
UpCalls == {1, 2}
Uploaders == {1}
\* images a user has on the leaderboard
MaxScans == 2
\* an Image without an Aura, or an Aura without a confidence
NullConf == -1
\* topTen = rankedUsers.slice(0, 10)
TopCount == 10
\* fetchImageAsBase64: const maxRetries = 3, const delayMs = 2000, and the
\* least buffer length it accepts
MaxRetries == 3
DelayMs == 2000
MinImageBytes == 100
\* likeAura / unlikeAura calls started in one behaviour
MaxLikes == 3
\* request slots that run likeAura or unlikeAura
LikeCalls == {1, 2}
\* request slots that run getFollowingFeed, and the page and limit queries
FeedCalls == {1}
FeedPages == {1, 2}
FeedLimits == {1, 2}
\* days the streak clock runs over
StreakDays == 4
\* 24 * 60 * 60 * 1000 ms, in half days: the streak clock counts half days
DayLength == 2

VARIABLES
  now,        \* the wall clock (Date.now(), new Date()), in minutes
  otps,       \* table otps: rows of model OTP
  otpSeq,     \* number of OTP rows created so far (ids are never reused)
  otpCalls,   \* the verifyOtp requests in flight, one per slot
  cleanup,    \* the OTP cleanup job in flight
  config,     \* the configuration of the process: whether the Twilio client
              \* was built, and nodeEnv
  sendCall,   \* what the last sendOtp call answered
  users,      \* table users: rows of model User
  userSeq,    \* number of cuid ids given to User rows so far
  regCalls,   \* the register / test-upload requests in flight, one per slot
  follows,    \* table follows: rows of model Follow
  followSeq,  \* number of Follow rows created so far
  socCalls,   \* the followUser / unfollowUser requests in flight, one per slot
  lastFollow, \* history: the pair of the latest successful followUser and the
              \* followed pairs before it, while no other call has changed them
  images,     \* table images: rows of model Image
  imageSeq,   \* number of Image rows created so far
  auras,      \* table auras: rows of model Aura
  auraSeq,    \* number of Aura rows created so far
  cloud,      \* the assets stored at Cloudinary, by public id
  cloudSeq,   \* number of assets uploaded so far
  upCalls,    \* the uploadImage / deleteImage requests in flight, one per slot
  lbScans,    \* per user, the confidences (in thousandths) of the Auras of its
              \* images, as user.findMany returns them to getLeaderboard
  lbResult,   \* what the last getLeaderboard call fetched and returned
  fetchCall,  \* the fetchImageAsBase64 call: its loop counter, what each
              \* attempt met, the sleeps it took and how it ended
  likeCalls,  \* the likeAura / unlikeAura requests in flight, one per slot
  likeSeq,    \* number of likeAura / unlikeAura calls started so far
  statsNow,   \* the clock of the scan streak (Date.now()), in half days
  scanDates,  \* createdAt of the Image rows of the user whose stats are asked
  statsCall,  \* the last getUserStats call and the scanStreak it returned
  feedCalls   \* the getFollowingFeed requests in flight, one per slot

otpVars == <<now, otps, otpSeq, otpCalls, cleanup, config, sendCall>>
userVars == <<users, userSeq, regCalls>>
socVars == <<follows, followSeq, socCalls, lastFollow>>
upVars == <<images, imageSeq, auras, auraSeq, cloud, cloudSeq, upCalls>>
lbVars == <<lbScans, lbResult>>
fetchVars == <<fetchCall>>
likeVars == <<likeCalls, likeSeq>>
streakVars == <<statsNow, scanDates, statsCall>>
feedVars == <<feedCalls>>
vars == <<otpVars, userVars, socVars, upVars, lbVars, fetchVars, likeVars, streakVars,
          feedVars>>
\* what the OTP handlers never write (the users table apart)
outsideOtp == <<config, userSeq, regCalls, socVars, upVars, lbVars, fetchVars, likeVars, streakVars,
                feedVars>>
\* what register and the test-user creation never write
outsideUsers == <<otpVars, socVars, upVars, lbVars, fetchVars, likeVars, streakVars, feedVars>>
\* what followUser and unfollowUser never write
outsideSocial == <<otpVars, userVars, upVars, lbVars, fetchVars, likeVars, streakVars,
                   feedVars>>
\* what uploadImage and deleteImage never write
outsideUpload == <<otpVars, userVars, socVars, lbVars, fetchVars, likeVars, streakVars,
                   feedVars>>
\* what getLeaderboard never writes
outsideLeaderboard == <<otpVars, userVars, socVars, upVars, lbScans, fetchVars, likeVars, streakVars,
                        feedVars>>
\* what fetchImageAsBase64 never writes
outsideFetch == <<otpVars, userVars, socVars, upVars, lbVars, likeVars, streakVars, feedVars>>
\* what likeAura and unlikeAura never write (the auras table apart)
outsideLikes == <<otpVars, userVars, socVars, images, imageSeq, auraSeq, cloud, cloudSeq,
                  upCalls, lbVars, fetchVars, streakVars, feedVars>>
\* what getFollowingFeed never writes
outsideFeed == <<otpVars, userVars, socVars, upVars, lbVars, fetchVars, likeVars,
                 streakVars>>
\* what getUserStats never writes
outsideStreak == <<otpVars, userVars, socVars, upVars, lbVars, fetchVars, likeVars, feedVars>>

\* ids: @default(cuid()) gives the n-th row of a table a fresh id
Cuid(n) == <<"cuid", n>>
TestUserId == <<"test-user-123", 0>>
TestPhone == "+1234567890"
NoUser == <<"null", 0>>
\* sub is the subject of the access token, isNewUser the flag of the answer
OtpIdle == [pc |-> "idle", phoneNumber |-> "", code |-> "", otpId |-> NoId,
            result |-> "none", isNewUser |-> "null", sub |-> NoUser]
CleanupIdle == [pc |-> "idle", kind |-> "none", thirtyMinutesAgo |-> 0,
                verified |-> 0, expired |-> 0, total |-> 0]
RegIdle == [op |-> "none", pc |-> "idle", phoneNumber |-> "", hasPicture |-> FALSE,
            profilePictureUrl |-> "null", uploads |-> 0, result |-> "none"]

SocIdle == [op |-> "none", pc |-> "idle", followerId |-> NoUser, followingId |-> NoUser,
            result |-> "none", following |-> "null"]
NoFollow == [state |-> "none", pair |-> <<NoUser, NoUser>>, before |-> {}]

\* the configuration without Twilio credentials and with the default nodeEnv
DevConfig == [twilio |-> FALSE, nodeEnv |-> "development"]
SendIdle == [called |-> FALSE, delivered |-> FALSE,
             answer |-> [result |-> "none", withCode |-> FALSE]]

OtpQuiet ==
  /\ now = 0
  /\ otps = {}
  /\ otpSeq = 0
  /\ otpCalls = [c \in OtpCalls |-> OtpIdle]
  /\ cleanup = CleanupIdle
  /\ config = DevConfig
  /\ sendCall = SendIdle

SocialQuiet ==
  /\ follows = {}
  /\ followSeq = 0
  /\ socCalls = [c \in SocCalls |-> SocIdle]
  /\ lastFollow = NoFollow

UpIdle == [op |-> "none", pc |-> "idle", userId |-> NoUser, imageId |-> NoUser,
           publicId |-> NoId, confidence |-> 0, steps |-> <<>>, failedAt |-> "none",
           result |-> "none"]

UploadQuiet ==
  /\ images = {}
  /\ imageSeq = 0
  /\ auras = {}
  /\ auraSeq = 0
  /\ cloud = {}
  /\ cloudSeq = 0
  /\ upCalls = [c \in UpCalls |-> UpIdle]

LbNone == [called |-> FALSE, currentUserId |-> NoUser, fetched |-> <<>>,
           rankedUsers |-> <<>>, topTen |-> <<>>, currentUser |-> <<>>,
           followingRankings |-> <<>>, totalUsers |-> 0]

LeaderboardQuiet ==
  /\ lbScans = <<>>
  /\ lbResult = LbNone

FetchIdle == [pc |-> "idle", imageUrl |-> "", attempt |-> 0, history |-> <<>>,
              sleeps |-> 0, slept |-> 0, result |-> [type |-> "none"]]

FetchQuiet == fetchCall = FetchIdle

\* seen is aura.likes as findUnique returned it
LikeIdle == [op |-> "none", pc |-> "idle", auraId |-> NoUser, seen |-> 0,
             result |-> "none", totalLikes |-> 0, totalShares |-> 0]

LikesQuiet ==
  /\ likeCalls = [c \in LikeCalls |-> LikeIdle]
  /\ likeSeq = 0

StatsIdle == [pc |-> "idle", scanStreak |-> 0]

\* followingIds is the local of that name, result the ids of the images
\* returned, in their order
FeedIdle == [pc |-> "idle", userId |-> NoUser, skip |-> 0, limit |-> 0,
             followingIds |-> {}, result |-> <<>>]

FeedQuiet == feedCalls = [c \in FeedCalls |-> FeedIdle]

StreakQuiet ==
  /\ statsNow = 0
  /\ scanDates = {}
  /\ statsCall = StatsIdle

(***************************************************************************)
(* OTP: AuthService.sendOtp, AuthService.verifyOtp, OtpCleanupService      *)
(***************************************************************************)

\* user.findUnique({where: {phoneNumber}})
UserByPhoneMutant(rows, phoneNumber) == {u \in rows : FALSE}
UserByPhone(rows, phoneNumber) == {u \in rows : u.phoneNumber = phoneNumber}

\* expiresAt = new Date(Date.now() + 10 * 60 * 1000)
ExpiresAt(t) == t + OtpTtlMinutes

\* the where clause of verifyOtp's findFirst
ValidOtpMutant(o, phoneNumber, code, t) ==
  /\ o.phoneNumber = phoneNumber
  /\ o.code = code
  /\ o.isUsed = FALSE
  /\ o.expiresAt >= t
ValidOtp(o, phoneNumber, code, t) ==
  /\ o.phoneNumber = phoneNumber
  /\ o.code = code
  /\ o.isUsed = FALSE
  /\ o.expiresAt > t

\* how sendOtp ends once the row is stored: a failed SMS throws in
\* production only, and the answer carries the code in development only
SendAnswerMutant(conf, delivered) ==
  IF conf.twilio /\ ~delivered
    THEN [result |-> "BadRequestException", withCode |-> FALSE]
    ELSE [result |-> "OTP sent successfully",
          withCode |-> (conf.nodeEnv = "development")]
SendAnswer(conf, delivered) ==
  IF conf.twilio /\ ~delivered /\ conf.nodeEnv = "production"
    THEN [result |-> "BadRequestException", withCode |-> FALSE]
    ELSE [result |-> "OTP sent successfully",
          withCode |-> (conf.nodeEnv = "development")]

\* sendOtp: generate the code, compute expiresAt, create the row, send the
\* SMS when Twilio is configured (delivered: the SMS went out) and answer
SendOtp(phoneNumber, code, delivered) ==
  /\ otpSeq < MaxOtps
  /\ LET row == [id |-> otpSeq + 1, phoneNumber |-> phoneNumber, code |-> code,
                 expiresAt |-> ExpiresAt(now), isUsed |-> FALSE, createdAt |-> now]
     IN otps' = otps \cup {row}
  /\ otpSeq' = otpSeq + 1
  /\ sendCall' = [called |-> TRUE, delivered |-> config.twilio /\ delivered,
                  answer |-> SendAnswer(config, delivered)]
  /\ UNCHANGED <<now, otpCalls, cleanup, users, outsideOtp>>

\* verifyOtp up to the findFirst: no row throws UnauthorizedException
VerifyFind(c, phoneNumber, code) ==
  /\ otpCalls[c].pc \in {"idle", "done"}
  /\ LET valid == {o \in otps : ValidOtp(o, phoneNumber, code, now)}
     IN \/ /\ valid = {}
           /\ otpCalls' = [otpCalls EXCEPT ![c] =
                [OtpIdle EXCEPT !.pc = "done", !.phoneNumber = phoneNumber,
                                !.code = code, !.result = "Unauthorized"]]
        \/ \E o \in valid :
             otpCalls' = [otpCalls EXCEPT ![c] =
                [OtpIdle EXCEPT !.pc = "found", !.phoneNumber = phoneNumber,
                                !.code = code, !.otpId = o.id]]
  /\ UNCHANGED <<now, otps, otpSeq, cleanup, users, sendCall, outsideOtp>>

\* verifyOtp: update({where: {id: otp.id}, data: {isUsed: true}}); a row that
\* was deleted meanwhile makes the update throw (record not found)
VerifyMark(c) ==
  /\ otpCalls[c].pc = "found"
  /\ IF \E o \in otps : o.id = otpCalls[c].otpId
       THEN /\ otps' = {IF o.id = otpCalls[c].otpId
                          THEN [o EXCEPT !.isUsed = TRUE] ELSE o : o \in otps}
            /\ otpCalls' = [otpCalls EXCEPT ![c].pc = "marked"]
       ELSE /\ otps' = otps
            /\ otpCalls' = [otpCalls EXCEPT ![c].pc = "done",
                                            ![c].result = "InternalError"]
  /\ UNCHANGED <<now, otpSeq, cleanup, users, sendCall, outsideOtp>>

\* what verifyOtp answers: {accessToken, user, isNewUser: false} for an
\* existing user, {message, phoneNumber, isNewUser: true} otherwise
VerifyAnswerMutant(existing) ==
  [result |-> "token", isNewUser |-> "false", sub |-> NoUser]
VerifyAnswer(existing) ==
  IF existing # {}
    THEN [result |-> "token", isNewUser |-> "false",
          sub |-> (CHOOSE u \in existing : TRUE).id]
    ELSE [result |-> "register", isNewUser |-> "true", sub |-> NoUser]

\* verifyOtp: look the user up; an existing user gets a token (and a DiceBear
\* avatar when it has no picture), otherwise the registration prompt
VerifyLookup(c) ==
  /\ otpCalls[c].pc = "marked"
  /\ LET existing == UserByPhone(users, otpCalls[c].phoneNumber)
         answer == VerifyAnswer(existing)
     IN /\ users' = {IF u \in existing /\ u.profilePictureUrl = "null"
                       THEN [u EXCEPT !.profilePictureUrl = "dicebear"]
                       ELSE u : u \in users}
        /\ otpCalls' = [otpCalls EXCEPT ![c].pc = "done",
                                        ![c].result = answer.result,
                                        ![c].isNewUser = answer.isNewUser,
                                        ![c].sub = answer.sub]
  /\ UNCHANGED <<now, otps, otpSeq, cleanup, sendCall, outsideOtp>>

\* cleanupOtps / performCleanup up to the first deleteMany (isUsed = true)
CleanupVerified(kind) ==
  /\ cleanup.pc \in {"idle", "done"}
  /\ LET gone == {o \in otps : o.isUsed}
     IN /\ otps' = otps \ gone
        /\ cleanup' = [CleanupIdle EXCEPT !.pc = "verified", !.kind = kind,
                         !.thirtyMinutesAgo = now - CleanupAgeMinutes,
                         !.verified = Cardinality(gone)]
  /\ UNCHANGED <<now, otpSeq, otpCalls, users, sendCall, outsideOtp>>

\* the where clause of the second deleteMany
ExpiredUnusedMutantAge(rows, thirtyMinutesAgo) == {o \in rows : ~o.isUsed}
ExpiredUnusedMutant(rows, thirtyMinutesAgo) ==
  {o \in rows : ~o.isUsed /\ o.createdAt <= thirtyMinutesAgo}
ExpiredUnused(rows, thirtyMinutesAgo) ==
  {o \in rows : ~o.isUsed /\ o.createdAt < thirtyMinutesAgo}

\* the second deleteMany (isUsed = false, createdAt < thirtyMinutesAgo) and
\* the totals
CleanupExpired ==
  /\ cleanup.pc = "verified"
  /\ LET gone == ExpiredUnused(otps, cleanup.thirtyMinutesAgo)
     IN /\ otps' = otps \ gone
        /\ cleanup' = [cleanup EXCEPT !.pc = "done", !.thirtyMinutesAgo = 0,
                         !.expired = Cardinality(gone),
                         !.total = cleanup.verified + Cardinality(gone)]
  /\ UNCHANGED <<now, otpSeq, otpCalls, users, sendCall, outsideOtp>>

Tick ==
  /\ now + ClockStep <= MaxTime
  /\ now' = now + ClockStep
  /\ UNCHANGED <<otps, otpSeq, otpCalls, cleanup, users, sendCall, outsideOtp>>


InitOtp ==
  /\ OtpQuiet
  /\ users \in {{}, {[id |-> Cuid(1), phoneNumber |-> "+111",
                       profilePictureUrl |-> "dicebear"]}}
  /\ userSeq = Cardinality(users)
  /\ regCalls = [c \in RegCalls |-> RegIdle]
  /\ SocialQuiet
  /\ UploadQuiet
  /\ LeaderboardQuiet
  /\ FetchQuiet
  /\ LikesQuiet
  /\ StreakQuiet
  /\ FeedQuiet

NextOtp ==
  \/ \E p \in Phones, code \in Codes, delivered \in BOOLEAN : SendOtp(p, code, delivered)
  \/ \E p \in Phones, code \in Codes : VerifyFind(1, p, code)
  \/ VerifyMark(1)
  \/ VerifyLookup(1)
  \/ \E kind \in {"cron", "manual"} : CleanupVerified(kind)
  \/ CleanupExpired
  \/ Tick

SpecOtp == InitOtp /\ [][NextOtp]_vars

\* verifyOtp requests running side by side
InitVerify == InitOtp

NextVerify ==
  \/ \E p \in Phones, code \in Codes, delivered \in BOOLEAN : SendOtp(p, code, delivered)
  \/ \E c \in OtpCalls, p \in Phones, code \in Codes : VerifyFind(c, p, code)
  \/ \E c \in OtpCalls : VerifyMark(c)
  \/ \E c \in OtpCalls : VerifyLookup(c)

SpecVerify == InitVerify /\ [][NextVerify]_vars

\* sendOtp under every configuration of Twilio and nodeEnv
Configs == [twilio : BOOLEAN, nodeEnv : {"development", "production", "test"}]

InitSend ==
  /\ now = 0
  /\ otps = {}
  /\ otpSeq = 0
  /\ otpCalls = [c \in OtpCalls |-> OtpIdle]
  /\ cleanup = CleanupIdle
  /\ config \in Configs
  /\ sendCall = SendIdle
  /\ users = {}
  /\ userSeq = 0
  /\ regCalls = [c \in RegCalls |-> RegIdle]
  /\ SocialQuiet
  /\ UploadQuiet
  /\ LeaderboardQuiet
  /\ FetchQuiet
  /\ LikesQuiet
  /\ StreakQuiet
  /\ FeedQuiet

NextSend ==
  \/ \E p \in Phones, code \in Codes, delivered \in BOOLEAN : SendOtp(p, code, delivered)
  \/ Tick

SpecSend == InitSend /\ [][NextSend]_vars

(***************************************************************************)
(* Users: AuthService.register and the test user of                        *)
(* ImagesController.testUploadImage                                        *)
(***************************************************************************)
\* model User: id is the primary key, phoneNumber is @unique; a create that
\* breaks either is rejected by the database
UserInsertAllowedMutant(rows, row) == \A u \in rows : u.id # row.id
UserInsertAllowed(rows, row) ==
  \A u \in rows : u.id # row.id /\ u.phoneNumber # row.phoneNumber

\* register up to findUnique({where: {phoneNumber}}): an existing user throws
\* ConflictException
RegFind(c, phoneNumber, hasPicture) ==
  /\ regCalls[c].pc \in {"idle", "done"}
  /\ userSeq < MaxUsers
  /\ regCalls' = [regCalls EXCEPT ![c] =
       IF UserByPhone(users, phoneNumber) # {}
         THEN [RegIdle EXCEPT !.op = "register", !.pc = "done",
                              !.phoneNumber = phoneNumber, !.hasPicture = hasPicture,
                              !.result = "Conflict"]
         ELSE [RegIdle EXCEPT !.op = "register",
                              !.pc = IF hasPicture THEN "upload" ELSE "create",
                              !.phoneNumber = phoneNumber, !.hasPicture = hasPicture,
                              !.profilePictureUrl = IF hasPicture THEN "null" ELSE "dicebear"]]
  /\ UNCHANGED <<users, userSeq, outsideUsers>>

\* register: uploadProfilePicture; a failed upload is caught and the DiceBear
\* avatar is used instead
RegUpload(c, uploadOk) ==
  /\ regCalls[c].pc = "upload"
  /\ regCalls' = [regCalls EXCEPT ![c].pc = "create",
                                  ![c].uploads = regCalls[c].uploads + 1,
                                  ![c].profilePictureUrl =
                                     IF uploadOk THEN "cloudinary" ELSE "dicebear"]
  /\ UNCHANGED <<users, userSeq, outsideUsers>>

\* register: user.create and the token; a create the database rejects is not
\* caught
RegCreate(c) ==
  /\ regCalls[c].pc = "create"
  /\ regCalls[c].op = "register"
  /\ LET row == [id |-> Cuid(userSeq + 1), phoneNumber |-> regCalls[c].phoneNumber,
                 profilePictureUrl |-> regCalls[c].profilePictureUrl]
     IN IF UserInsertAllowed(users, row)
          THEN /\ users' = users \cup {row}
               /\ userSeq' = userSeq + 1
               /\ regCalls' = [regCalls EXCEPT ![c].pc = "done", ![c].result = "token"]
          ELSE /\ UNCHANGED <<users, userSeq>>
               /\ regCalls' = [regCalls EXCEPT ![c].pc = "done",
                                               ![c].result = "InternalError"]
  /\ UNCHANGED outsideUsers

\* testUploadImage up to findUnique({where: {id: testUserId}}); with the test
\* user in place the request goes on to uploadImage
TestFind(c) ==
  /\ regCalls[c].pc \in {"idle", "done"}
  /\ regCalls' = [regCalls EXCEPT ![c] =
       IF \E u \in users : u.id = TestUserId
         THEN [RegIdle EXCEPT !.op = "testUpload", !.pc = "done",
                              !.phoneNumber = TestPhone, !.result = "upload"]
         ELSE [RegIdle EXCEPT !.op = "testUpload", !.pc = "create",
                              !.phoneNumber = TestPhone]]
  /\ UNCHANGED <<users, userSeq, outsideUsers>>

\* testUploadImage: user.create of the test user inside the try block; a
\* rejected create is rethrown as BadRequestException
TestCreate(c) ==
  /\ regCalls[c].pc = "create"
  /\ regCalls[c].op = "testUpload"
  /\ LET row == [id |-> TestUserId, phoneNumber |-> TestPhone,
                 profilePictureUrl |-> "null"]
     IN IF UserInsertAllowed(users, row)
          THEN /\ users' = users \cup {row}
               /\ regCalls' = [regCalls EXCEPT ![c].pc = "done", ![c].result = "upload"]
          ELSE /\ users' = users
               /\ regCalls' = [regCalls EXCEPT ![c].pc = "done",
                                               ![c].result = "BadRequest"]
  /\ UNCHANGED <<userSeq, outsideUsers>>

InitUsers ==
  /\ OtpQuiet
  /\ SocialQuiet
  /\ UploadQuiet
  /\ LeaderboardQuiet
  /\ FetchQuiet
  /\ LikesQuiet
  /\ StreakQuiet
  /\ FeedQuiet
  /\ users = {}
  /\ userSeq = 0
  /\ regCalls = [c \in RegCalls |-> RegIdle]

NextUsers ==
  \/ \E c \in RegCalls, p \in RegPhones, hasPicture \in BOOLEAN : RegFind(c, p, hasPicture)
  \/ \E c \in RegCalls, uploadOk \in BOOLEAN : RegUpload(c, uploadOk)
  \/ \E c \in RegCalls : RegCreate(c)
  \/ \E c \in RegCalls : TestFind(c)
  \/ \E c \in RegCalls : TestCreate(c)

SpecUsers == InitUsers /\ [][NextUsers]_vars

(***************************************************************************)
(* Sign-in: sendOtp, verifyOtp and register against one database           *)
(***************************************************************************)
InitAuth ==
  /\ OtpQuiet
  /\ users = {}
  /\ userSeq = 0
  /\ regCalls = [c \in RegCalls |-> RegIdle]
  /\ SocialQuiet
  /\ UploadQuiet
  /\ LeaderboardQuiet
  /\ FetchQuiet
  /\ LikesQuiet
  /\ StreakQuiet
  /\ FeedQuiet

NextAuth ==
  \/ \E p \in Phones, code \in Codes, delivered \in BOOLEAN : SendOtp(p, code, delivered)
  \/ \E p \in Phones, code \in Codes : VerifyFind(1, p, code)
  \/ VerifyMark(1)
  \/ VerifyLookup(1)
  \/ \E p \in RegPhones, hasPicture \in BOOLEAN : RegFind(1, p, hasPicture)
  \/ \E uploadOk \in BOOLEAN : RegUpload(1, uploadOk)
  \/ RegCreate(1)

SpecAuth == InitAuth /\ [][NextAuth]_vars


(***************************************************************************)
(* Social graph: SocialService.followUser and SocialService.unfollowUser   *)
(***************************************************************************)
\* the registered users of the social specifications, and an id of no user
SocUsers == {Cuid(1), Cuid(2), Cuid(3)}
MissingUser == Cuid(4)
\* the users whose requests are modelled (req.user.id)
SocCallers == {Cuid(1), Cuid(2)}
SocUserRows ==
  {[id |-> Cuid(1), phoneNumber |-> "+111", profilePictureUrl |-> "dicebear"],
   [id |-> Cuid(2), phoneNumber |-> "+222", profilePictureUrl |-> "dicebear"],
   [id |-> Cuid(3), phoneNumber |-> "+333", profilePictureUrl |-> "cloudinary"]}

\* the followed pairs of a set of Follow rows
Pairs(rows) == {<<f.followerId, f.followingId>> : f \in rows}

\* model Follow: @@unique([followerId, followingId])
FollowInsertAllowedMutant(rows, row) == \A f \in rows : f.id # row.id
FollowInsertAllowed(rows, row) ==
  \A f \in rows :
     /\ f.id # row.id
     /\ ~(f.followerId = row.followerId /\ f.followingId = row.followingId)

\* findUnique({where: {followerId_followingId}})
FollowByPairMutant(rows, followerId, followingId) ==
  {f \in rows : f.followerId = followingId /\ f.followingId = followerId}
FollowByPair(rows, followerId, followingId) ==
  {f \in rows : f.followerId = followerId /\ f.followingId = followingId}

\* the rows follow.delete({where: {followerId_followingId}}) removes
FollowDeletedMutant(rows, followerId, followingId) ==
  {f \in rows : f.followerId = followerId}
FollowDeleted(rows, followerId, followingId) ==
  {f \in rows : f.followerId = followerId /\ f.followingId = followingId}

\* a finished call keeps its operation and its answer or exception
SocDone(call, result, following) ==
  [SocIdle EXCEPT !.op = call.op, !.pc = "done", !.result = result,
                  !.following = following]

\* followUser: the self check and findUnique of the user to follow
FollowFindUser(c, followerId, followingId) ==
  /\ socCalls[c].pc \in {"idle", "done"}
  /\ followSeq < MaxFollows
  /\ LET call == [SocIdle EXCEPT !.op = "follow", !.followerId = followerId,
                                 !.followingId = followingId]
     IN socCalls' = [socCalls EXCEPT ![c] =
          IF followerId = followingId
            THEN SocDone(call, "BadRequest", "null")
          ELSE IF ~\E u \in users : u.id = followingId
            THEN SocDone(call, "NotFound", "null")
          ELSE [call EXCEPT !.pc = "findFollow"]]
  /\ UNCHANGED <<follows, followSeq, lastFollow, outsideSocial>>

\* followUser: findUnique of the Follow row; an existing row throws
\* ConflictException
FollowFindExisting(c) ==
  /\ socCalls[c].pc = "findFollow"
  /\ socCalls' = [socCalls EXCEPT ![c] =
       IF FollowByPair(follows, socCalls[c].followerId, socCalls[c].followingId) # {}
         THEN SocDone(socCalls[c], "Conflict", "null")
         ELSE [socCalls[c] EXCEPT !.pc = "create"]]
  /\ UNCHANGED <<follows, followSeq, lastFollow, outsideSocial>>

\* followUser: follow.create and the answer {following: true}; a create the
\* database rejects is not caught
FollowCreate(c) ==
  /\ socCalls[c].pc = "create"
  /\ LET row == [id |-> Cuid(followSeq + 1), followerId |-> socCalls[c].followerId,
                 followingId |-> socCalls[c].followingId]
     IN IF FollowInsertAllowed(follows, row)
          THEN /\ follows' = follows \cup {row}
               /\ followSeq' = followSeq + 1
               /\ lastFollow' = [state |-> "followed",
                                 pair |-> <<row.followerId, row.followingId>>,
                                 before |-> Pairs(follows)]
               /\ socCalls' = [socCalls EXCEPT ![c] = SocDone(socCalls[c], "ok", "true")]
          ELSE /\ UNCHANGED <<follows, followSeq, lastFollow>>
               /\ socCalls' = [socCalls EXCEPT ![c] = SocDone(socCalls[c], "InternalError", "null")]
  /\ UNCHANGED outsideSocial

\* unfollowUser: findUnique of the Follow row; no row throws NotFoundException
UnfollowFind(c, followerId, followingId) ==
  /\ socCalls[c].pc \in {"idle", "done"}
  /\ LET call == [SocIdle EXCEPT !.op = "unfollow", !.followerId = followerId,
                                 !.followingId = followingId]
     IN socCalls' = [socCalls EXCEPT ![c] =
          IF FollowByPair(follows, followerId, followingId) = {}
            THEN SocDone(call, "NotFound", "null")
            ELSE [call EXCEPT !.pc = "delete"]]
  /\ UNCHANGED <<follows, followSeq, lastFollow, outsideSocial>>

\* unfollowUser: follow.delete and the answer {following: false}; deleting a
\* row that is gone throws (record not found), which is not caught
UnfollowDelete(c) ==
  /\ socCalls[c].pc = "delete"
  /\ LET gone == FollowDeleted(follows, socCalls[c].followerId, socCalls[c].followingId)
     IN IF FollowByPair(follows, socCalls[c].followerId, socCalls[c].followingId) # {}
          THEN /\ follows' = follows \ gone
               /\ lastFollow' =
                    IF /\ lastFollow.state = "followed"
                       /\ lastFollow.pair = <<socCalls[c].followerId, socCalls[c].followingId>>
                      THEN [lastFollow EXCEPT !.state = "undone"]
                      ELSE NoFollow
               /\ socCalls' = [socCalls EXCEPT ![c] = SocDone(socCalls[c], "ok", "false")]
          ELSE /\ UNCHANGED <<follows, lastFollow>>
               /\ socCalls' = [socCalls EXCEPT ![c] = SocDone(socCalls[c], "InternalError", "null")]
  /\ UNCHANGED <<followSeq, outsideSocial>>

InitSocial ==
  /\ OtpQuiet
  /\ users = SocUserRows
  /\ userSeq = Cardinality(SocUsers)
  /\ regCalls = [c \in RegCalls |-> RegIdle]
  /\ SocialQuiet
  /\ UploadQuiet
  /\ LeaderboardQuiet
  /\ FetchQuiet
  /\ LikesQuiet
  /\ StreakQuiet
  /\ FeedQuiet

NextSocial ==
  \/ \E c \in SocCalls, a \in SocCallers, b \in SocUsers \cup {MissingUser} :
        FollowFindUser(c, a, b)
  \/ \E c \in SocCalls : FollowFindExisting(c)
  \/ \E c \in SocCalls : FollowCreate(c)
  \/ \E c \in SocCalls, a \in SocCallers, b \in SocUsers : UnfollowFind(c, a, b)
  \/ \E c \in SocCalls : UnfollowDelete(c)

SpecSocial == InitSocial /\ [][NextSocial]_vars


(***************************************************************************)
(* Images: ImagesService.uploadImage and ImagesService.deleteImage         *)
(***************************************************************************)
\* upload.allowedMimeTypes
AllowedMimeTypes == {"image/jpeg", "image/png", "image/webp", "image/jpg"}
\* the files a request carries: none, or a mimetype and a size
Files == {[present |-> FALSE, mimetype |-> "", size |-> 0]} \cup
         [present : {TRUE}, mimetype : {"image/png", "image/gif"},
          size : {MaxFileSize, MaxFileSize + 1}]
\* what generateAuraFromBuffer can meet
GeminiOutcomes == {"ok", "notConfigured", "apiError", "invalidFormat"}
\* the confidence of Gemini's JSON, in thousandths (0: absent)
ParsedConfidences == {0, 850}
\* the users whose uploads and deletes are modelled
UpUsers == {Cuid(1), Cuid(2)}

\* the validation of uploadImage: the message of its BadRequestException, or "ok"
ValidateFileMutant(file) ==
  IF ~file.present THEN "No file provided"
  ELSE IF file.mimetype \notin AllowedMimeTypes THEN "Invalid file type"
  ELSE IF file.size >= MaxFileSize THEN "File size exceeds"
  ELSE "ok"
ValidateFile(file) ==
  IF ~file.present THEN "No file provided"
  ELSE IF file.mimetype \notin AllowedMimeTypes THEN "Invalid file type"
  ELSE IF file.size > MaxFileSize THEN "File size exceeds"
  ELSE "ok"

\* the order of the awaited steps of uploadImage
UploadNextMutant(step) ==
  CASE step = "validate" -> "cloudinary"
    [] step = "cloudinary" -> "gemini"
    [] step = "gemini" -> "image"
    [] step = "image" -> "aura"
    [] step = "aura" -> "done"
UploadNext(step) ==
  CASE step = "validate" -> "gemini"
    [] step = "gemini" -> "cloudinary"
    [] step = "cloudinary" -> "image"
    [] step = "image" -> "aura"
    [] step = "aura" -> "done"

\* what generateAuraFromBuffer throws: every failure is a BadRequestException
\* whose message names Gemini
GeminiError(outcome) ==
  CASE outcome = "notConfigured" ->
         [type |-> "BadRequestException", message |-> "Gemini AI is not configured"]
    [] outcome = "invalidFormat" ->
         [type |-> "BadRequestException", message |-> "Gemini returned invalid response format"]
    [] outcome = "apiError" ->
         [type |-> "BadRequestException", message |-> "Gemini AI analysis failed"]

\* what CloudinaryService.uploadImage throws
CloudinaryError == [type |-> "BadRequestException", message |-> "Failed to upload image"]
\* what a rejected or failed database call throws
PrismaError == [type |-> "PrismaClientKnownRequestError", message |-> "Invalid invocation"]

MentionsGemini(message) ==
  message \in {"Gemini AI is not configured", "Gemini returned invalid response format",
               "Gemini AI analysis failed"}

\* the catch block of uploadImage: the exception the call ends with
UploadCatchMutant(error) ==
  IF MentionsGemini(error.message)
    THEN [type |-> "BadRequestException", message |-> "AI aura analysis failed"]
    ELSE error
UploadCatch(error) ==
  IF MentionsGemini(error.message)
    THEN [type |-> "BadRequestException", message |-> "AI aura analysis failed"]
    ELSE [type |-> "BadRequestException", message |-> "Failed to process image"]

Ok == [type |-> "ok", message |-> ""]
NoResult == [type |-> "none", message |-> ""]

\* a finished call keeps its operation, its completed steps and its outcome
UpDone(call, failedAt, result) ==
  [UpIdle EXCEPT !.op = call.op, !.pc = "done", !.steps = call.steps,
                 !.failedAt = failedAt, !.result = result]

\* model Image: id is the primary key, userId references a User
ImageInsertAllowed(rows, row) ==
  /\ \A i \in rows : i.id # row.id
  /\ \E u \in users : u.id = row.userId

\* model Aura: id is the primary key, imageId is @unique and references an
\* Image, userId references a User
AuraInsertAllowed(rows, row) ==
  /\ \A a \in rows : a.id # row.id /\ a.imageId # row.imageId
  /\ \E i \in images : i.id = row.imageId
  /\ \E u \in users : u.id = row.userId

\* uploadImage: the validation, up to the call of Gemini
UploadStart(c, file, userId) ==
  /\ upCalls[c].pc \in {"idle", "done"}
  /\ cloudSeq < MaxAssets
  /\ LET call == [UpIdle EXCEPT !.op = "upload", !.userId = userId]
     IN upCalls' = [upCalls EXCEPT ![c] =
          IF ValidateFile(file) # "ok"
            THEN UpDone(call, "validate",
                        [type |-> "BadRequestException", message |-> ValidateFile(file)])
            ELSE [call EXCEPT !.pc = UploadNext("validate")]]
  /\ UNCHANGED <<images, imageSeq, auras, auraSeq, cloud, cloudSeq, outsideUpload>>

\* step 1: generateAuraFromBuffer
UploadGemini(c, outcome, parsed) ==
  /\ upCalls[c].pc = "gemini"
  /\ upCalls' = [upCalls EXCEPT ![c] =
       IF outcome = "ok"
         THEN [upCalls[c] EXCEPT !.pc = UploadNext("gemini"),
                                 !.steps = Append(upCalls[c].steps, "gemini"),
                                 !.confidence = IF parsed = 0 THEN DefaultConfidence
                                                ELSE parsed]
         ELSE UpDone(upCalls[c], "gemini", UploadCatch(GeminiError(outcome)))]
  /\ UNCHANGED <<images, imageSeq, auras, auraSeq, cloud, cloudSeq, outsideUpload>>

\* step 2: CloudinaryService.uploadImage
UploadCloudinary(c, uploaded) ==
  /\ upCalls[c].pc = "cloudinary"
  /\ IF uploaded
       THEN /\ cloud' = cloud \cup {cloudSeq + 1}
            /\ cloudSeq' = cloudSeq + 1
            /\ upCalls' = [upCalls EXCEPT ![c] =
                 [upCalls[c] EXCEPT !.pc = UploadNext("cloudinary"),
                                    !.steps = Append(upCalls[c].steps, "cloudinary"),
                                    !.publicId = cloudSeq + 1]]
       ELSE /\ UNCHANGED <<cloud, cloudSeq>>
            /\ upCalls' = [upCalls EXCEPT ![c] =
                 UpDone(upCalls[c], "cloudinary", UploadCatch(CloudinaryError))]
  /\ UNCHANGED <<images, imageSeq, auras, auraSeq, outsideUpload>>

\* step 3: image.create
UploadImageRow(c, dbUp) ==
  /\ upCalls[c].pc = "image"
  /\ LET row == [id |-> Cuid(imageSeq + 1), userId |-> upCalls[c].userId,
                 publicId |-> upCalls[c].publicId]
     IN IF dbUp /\ ImageInsertAllowed(images, row)
          THEN /\ images' = images \cup {row}
               /\ imageSeq' = imageSeq + 1
               /\ upCalls' = [upCalls EXCEPT ![c] =
                    [upCalls[c] EXCEPT !.pc = UploadNext("image"),
                                       !.steps = Append(upCalls[c].steps, "image"),
                                       !.imageId = row.id]]
          ELSE /\ UNCHANGED <<images, imageSeq>>
               /\ upCalls' = [upCalls EXCEPT ![c] =
                    UpDone(upCalls[c], "image", UploadCatch(PrismaError))]
  /\ UNCHANGED <<auras, auraSeq, cloud, cloudSeq, outsideUpload>>

\* step 4: aura.create and the answer
UploadAuraRowMutant(c, dbUp) ==
  /\ upCalls[c].pc = "aura"
  /\ \E i \in images :
        /\ i.userId = upCalls[c].userId
        /\ auras' = auras \cup {[id |-> Cuid(auraSeq + 1), imageId |-> i.id,
                                 userId |-> upCalls[c].userId,
                                 confidence |-> upCalls[c].confidence,
                                 likes |-> 0, shares |-> 0]}
  /\ auraSeq' = auraSeq + 1
  /\ upCalls' = [upCalls EXCEPT ![c] =
       UpDone([upCalls[c] EXCEPT !.steps = Append(upCalls[c].steps, "aura")], "none", Ok)]
  /\ UNCHANGED <<images, imageSeq, cloud, cloudSeq, outsideUpload>>
UploadAuraRow(c, dbUp) ==
  /\ upCalls[c].pc = "aura"
  /\ LET row == [id |-> Cuid(auraSeq + 1), imageId |-> upCalls[c].imageId,
                 userId |-> upCalls[c].userId, confidence |-> upCalls[c].confidence,
                 likes |-> 0, shares |-> 0]
     IN IF dbUp /\ AuraInsertAllowed(auras, row)
          THEN /\ auras' = auras \cup {row}
               /\ auraSeq' = auraSeq + 1
               /\ upCalls' = [upCalls EXCEPT ![c] =
                    UpDone([upCalls[c] EXCEPT !.steps = Append(upCalls[c].steps, "aura")],
                           "none", Ok)]
          ELSE /\ UNCHANGED <<auras, auraSeq>>
               /\ upCalls' = [upCalls EXCEPT ![c] =
                    UpDone(upCalls[c], "aura", UploadCatch(PrismaError))]
  /\ UNCHANGED <<images, imageSeq, cloud, cloudSeq, outsideUpload>>

\* image.findFirst({where: {id: imageId, userId}})
ImageOfUserMutant(rows, imageId, userId) == {i \in rows : i.id = imageId}
ImageOfUser(rows, imageId, userId) ==
  {i \in rows : i.id = imageId /\ i.userId = userId}

\* deleteImage: findFirst({where: {id, userId}}); no row throws
\* NotFoundException
DeleteFind(c, imageId, userId) ==
  /\ upCalls[c].pc \in {"idle", "done"}
  /\ LET call == [UpIdle EXCEPT !.op = "delete", !.userId = userId, !.imageId = imageId]
         found == ImageOfUser(images, imageId, userId)
     IN upCalls' = [upCalls EXCEPT ![c] =
          IF found = {}
            THEN UpDone(call, "find", [type |-> "NotFoundException",
                                       message |-> "Image not found"])
            ELSE [call EXCEPT !.pc = "destroy",
                              !.publicId = (CHOOSE i \in found : TRUE).publicId]]
  /\ UNCHANGED <<images, imageSeq, auras, auraSeq, cloud, cloudSeq, outsideUpload>>

\* deleteImage: CloudinaryService.deleteImage, which swallows a failure
DeleteAsset(c, destroyed) ==
  /\ upCalls[c].pc = "destroy"
  /\ cloud' = IF destroyed THEN cloud \ {upCalls[c].publicId} ELSE cloud
  /\ upCalls' = [upCalls EXCEPT ![c].pc = "deleteRow"]
  /\ UNCHANGED <<images, imageSeq, auras, auraSeq, cloudSeq, outsideUpload>>

\* deleteImage: image.delete({where: {id}}), which cascades to the Aura; a
\* row that is gone makes it throw (record not found)
DeleteRow(c) ==
  /\ upCalls[c].pc = "deleteRow"
  /\ IF \E i \in images : i.id = upCalls[c].imageId
       THEN /\ images' = {i \in images : i.id # upCalls[c].imageId}
            /\ auras' = {a \in auras : a.imageId # upCalls[c].imageId}
            /\ upCalls' = [upCalls EXCEPT ![c] = UpDone(upCalls[c], "none", Ok)]
       ELSE /\ UNCHANGED <<images, auras>>
            /\ upCalls' = [upCalls EXCEPT ![c] = UpDone(upCalls[c], "deleteRow", PrismaError)]
  /\ UNCHANGED <<imageSeq, auraSeq, cloud, cloudSeq, outsideUpload>>

InitUpload ==
  /\ OtpQuiet
  /\ users = SocUserRows
  /\ userSeq = Cardinality(SocUsers)
  /\ regCalls = [c \in RegCalls |-> RegIdle]
  /\ SocialQuiet
  /\ UploadQuiet
  /\ LeaderboardQuiet
  /\ FetchQuiet
  /\ LikesQuiet
  /\ StreakQuiet
  /\ FeedQuiet

NextUpload ==
  \/ \E c \in Uploaders, file \in Files, u \in UpUsers : UploadStart(c, file, u)
  \/ \E c \in Uploaders, outcome \in GeminiOutcomes, parsed \in ParsedConfidences :
        UploadGemini(c, outcome, parsed)
  \/ \E c \in Uploaders, uploaded \in BOOLEAN : UploadCloudinary(c, uploaded)
  \/ \E c \in Uploaders, dbUp \in BOOLEAN : UploadImageRow(c, dbUp)
  \/ \E c \in Uploaders, dbUp \in BOOLEAN : UploadAuraRow(c, dbUp)
  \/ \E c \in UpCalls, n \in 1..MaxAssets, u \in UpUsers : DeleteFind(c, Cuid(n), u)
  \/ \E c \in UpCalls, destroyed \in BOOLEAN : DeleteAsset(c, destroyed)
  \/ \E c \in UpCalls : DeleteRow(c)

SpecUpload == InitUpload /\ [][NextUpload]_vars


(***************************************************************************)
(* Likes: SocialService.likeAura, unlikeAura and shareAura                 *)
(***************************************************************************)
\* the Image and the Aura the calls are about, as an upload left them
LikedImage == [id |-> Cuid(1), userId |-> Cuid(1), publicId |-> 1]
LikedAura == [id |-> Cuid(1), imageId |-> Cuid(1), userId |-> Cuid(1),
              confidence |-> DefaultConfidence, likes |-> 0, shares |-> 0]
\* the aura ids of the requests: the stored aura and one that does not exist
LikeTargets == {Cuid(1), Cuid(2)}

\* aura.findUnique({where: {id: auraId}})
AuraById(rows, auraId) == {a \in rows : a.id = auraId}

\* decrement: aura.likes > 0 ? 1 : 0, over the likes findUnique returned
UnlikeDecrement(seen) == IF seen > 0 THEN 1 ELSE 0

\* aura.update({where: {id}, data: {likes: {increment: n}}}): the database
\* adds n to the stored value
LikesAddedMutant(rows, auraId, n) ==
  {IF a.id = auraId THEN [a EXCEPT !.likes = a.likes + n, !.shares = a.shares + n]
   ELSE a : a \in rows}
LikesAdded(rows, auraId, n) ==
  {IF a.id = auraId THEN [a EXCEPT !.likes = a.likes + n] ELSE a : a \in rows}

\* aura.update({where: {id}, data: {shares: {increment: 1}}})
SharesAdded(rows, auraId) ==
  {IF a.id = auraId THEN [a EXCEPT !.shares = a.shares + 1] ELSE a : a \in rows}

LikeDone(call, result, totalLikes) ==
  [LikeIdle EXCEPT !.op = call.op, !.pc = "done", !.auraId = call.auraId,
                   !.result = result, !.totalLikes = totalLikes]

\* likeAura / unlikeAura / shareAura: findUnique; no row throws
\* NotFoundException
LikeFind(c, op, auraId) ==
  /\ likeCalls[c].pc \in {"idle", "done"}
  /\ likeSeq < MaxLikes
  /\ likeSeq' = likeSeq + 1
  /\ LET call == [LikeIdle EXCEPT !.op = op, !.auraId = auraId]
         found == AuraById(auras, auraId)
     IN likeCalls' = [likeCalls EXCEPT ![c] =
          IF found = {}
            THEN LikeDone(call, "NotFoundException", 0)
            ELSE [call EXCEPT !.pc = "update",
                              !.seen = (CHOOSE a \in found : TRUE).likes]]
  /\ UNCHANGED <<auras, outsideLikes>>

\* the aura.update of the call and its answer; a row that is gone makes
\* update throw (record not found)
LikeUpdate(c) ==
  /\ likeCalls[c].pc = "update"
  /\ LET call == likeCalls[c]
         n == IF call.op = "like" THEN 1 ELSE 0 - UnlikeDecrement(call.seen)
     IN IF AuraById(auras, call.auraId) = {}
          THEN /\ auras' = auras
               /\ likeCalls' = [likeCalls EXCEPT ![c] =
                    LikeDone(call, "PrismaClientKnownRequestError", 0)]
          ELSE /\ auras' = IF call.op = "share" THEN SharesAdded(auras, call.auraId)
                           ELSE LikesAdded(auras, call.auraId, n)
               /\ LET updatedAura == CHOOSE a \in AuraById(auras', call.auraId) : TRUE
                  IN likeCalls' = [likeCalls EXCEPT ![c] =
                       [LikeDone(call, "ok", updatedAura.likes)
                          EXCEPT !.totalShares = updatedAura.shares]]
  /\ UNCHANGED <<likeSeq, outsideLikes>>

InitLikes ==
  /\ OtpQuiet
  /\ users = SocUserRows
  /\ userSeq = Cardinality(SocUsers)
  /\ regCalls = [c \in RegCalls |-> RegIdle]
  /\ SocialQuiet
  /\ images = {LikedImage}
  /\ imageSeq = 1
  /\ auras = {LikedAura}
  /\ auraSeq = 1
  /\ cloud = {1}
  /\ cloudSeq = 1
  /\ upCalls = [c \in UpCalls |-> UpIdle]
  /\ LeaderboardQuiet
  /\ FetchQuiet
  /\ LikesQuiet
  /\ StreakQuiet
  /\ FeedQuiet

NextLikes ==
  \/ \E c \in LikeCalls, op \in {"like", "unlike", "share"}, auraId \in LikeTargets :
        LikeFind(c, op, auraId)
  \/ \E c \in LikeCalls : LikeUpdate(c)

SpecLikes == InitLikes /\ [][NextLikes]_vars


(***************************************************************************)
(* Leaderboard: SocialService.getLeaderboard                               *)
(***************************************************************************)
\* the confidences an image contributes, in thousandths
ImageConfs == {NullConf, 4, 6}

RECURSIVE NonDecreasing(_)
NonDecreasing(q) ==
  Len(q) <= 1 \/ (q[1] <= q[2] /\ NonDecreasing(Tail(q)))

\* the image lists of one user (one representative per multiset)
ScanLists ==
  UNION {{q \in [1..n -> ImageConfs] : NonDecreasing(q)} : n \in 0..MaxScans}

\* the orders in which findMany can return the users
FetchOrders ==
  {q \in [1..Cardinality(SocUsers) -> SocUsers] :
     \A i, j \in 1..Cardinality(SocUsers) : q[i] = q[j] => i = j}

\* the Follow table the leaderboard is read against
LbFollows ==
  {[id |-> Cuid(1), followerId |-> Cuid(1), followingId |-> Cuid(2)],
   [id |-> Cuid(2), followerId |-> Cuid(1), followingId |-> Cuid(3)],
   [id |-> Cuid(3), followerId |-> Cuid(3), followingId |-> Cuid(2)]}

\* sum + (image.aura?.confidence || 0)
RECURSIVE TotalConfidence(_)
TotalConfidence(q) ==
  IF q = <<>> THEN 0
  ELSE (IF Head(q) = NullConf THEN 0 ELSE Head(q)) + TotalConfidence(Tail(q))

\* Math.round(x * 100) / 100 of a total in thousandths, in hundredths
RoundTotal(t) == (t + 5) \div 10
\* Math.round((t / n) * 100) / 100, in hundredths
RoundAverage(t, n) == (t + 5 * n) \div (10 * n)

\* the entry the first map builds for a fetched user
StatsOf(userId, scans, followers) ==
  [id |-> userId,
   totalScans |-> Len(scans),
   totalConfidence |-> RoundTotal(TotalConfidence(scans)),
   averageConfidence |-> IF Len(scans) > 0
                           THEN RoundAverage(TotalConfidence(scans), Len(scans))
                           ELSE 0,
   followers |-> followers]

\* the comparator of the sort: negative when a goes first
CompareMutantScans(a, b) ==
  IF b.totalConfidence # a.totalConfidence
    THEN b.totalConfidence - a.totalConfidence
  ELSE IF b.averageConfidence # a.averageConfidence
    THEN b.averageConfidence - a.averageConfidence
  ELSE a.totalScans - b.totalScans
CompareMutantFollowers(a, b) ==
  IF b.totalConfidence # a.totalConfidence
    THEN b.totalConfidence - a.totalConfidence
  ELSE IF b.averageConfidence # a.averageConfidence
    THEN b.averageConfidence - a.averageConfidence
  ELSE IF b.totalScans # a.totalScans
    THEN b.totalScans - a.totalScans
  ELSE b.followers - a.followers
Compare(a, b) ==
  IF b.totalConfidence # a.totalConfidence
    THEN b.totalConfidence - a.totalConfidence
  ELSE IF b.averageConfidence # a.averageConfidence
    THEN b.averageConfidence - a.averageConfidence
  ELSE b.totalScans - a.totalScans

\* Array.prototype.sort is stable: x goes behind every entry it does not
\* precede
SortInsert(sorted, x) ==
  LET behind == {i \in 1..Len(sorted) : Compare(sorted[i], x) > 0}
      at == IF behind = {} THEN Len(sorted) + 1
            ELSE CHOOSE i \in behind : \A j \in behind : i <= j
  IN SubSeq(sorted, 1, at - 1) \o <<x>> \o SubSeq(sorted, at, Len(sorted))

RECURSIVE SortEntries(_)
SortEntries(q) ==
  IF q = <<>> THEN <<>>
  ELSE LET front == SortEntries(SubSeq(q, 1, Len(q) - 1))
       IN SortInsert(front, q[Len(q)])

\* rank: index + 1
WithRanks(sorted) ==
  [i \in 1..Len(sorted) |->
     [rank |-> i, id |-> sorted[i].id, totalScans |-> sorted[i].totalScans,
      totalConfidence |-> sorted[i].totalConfidence,
      averageConfidence |-> sorted[i].averageConfidence,
      followers |-> sorted[i].followers]]

\* the map over usersWithStats
StatsEntries(fetched, scans, followRows) ==
  [i \in 1..Len(fetched) |->
     StatsOf(fetched[i], scans[fetched[i]],
             Cardinality({f \in followRows : f.followingId = fetched[i]}))]

\* rankedUsers: map, filter (at least one scan), sort, rank
RankedUsers(fetched, scans, followRows) ==
  LET HasScan(e) == e.totalScans > 0
  IN CHOOSE ranked \in
       {WithRanks(SortEntries(SelectSeq(entries, HasScan))) :
          entries \in {StatsEntries(fetched, scans, followRows)}} : TRUE

\* rankedUsers.slice(0, 10)
TopTenMutant(rankedUsers) == rankedUsers
TopTen(rankedUsers) ==
  SubSeq(rankedUsers, 1,
         IF Len(rankedUsers) < TopCount THEN Len(rankedUsers) ELSE TopCount)

\* currentUserRanking || the default entry
CurrentUserMutant(currentUserId, rankedUsers, followRows) ==
  LET IsCurrent(e) == e.id = currentUserId
      own == SelectSeq(TopTen(rankedUsers), IsCurrent)
  IN IF own # <<>> THEN own[1]
     ELSE [rank |-> Len(rankedUsers) + 1, id |-> currentUserId,
           totalScans |-> 0, totalConfidence |-> 0, averageConfidence |-> 0,
           followers |-> Cardinality({f \in followRows :
                                        f.followingId = currentUserId})]
CurrentUser(currentUserId, rankedUsers, followRows) ==
  LET IsCurrent(e) == e.id = currentUserId
      own == SelectSeq(rankedUsers, IsCurrent)
  IN IF own # <<>> THEN own[1]
     ELSE [rank |-> Len(rankedUsers) + 1, id |-> currentUserId,
           totalScans |-> 0, totalConfidence |-> 0, averageConfidence |-> 0,
           followers |-> Cardinality({f \in followRows :
                                        f.followingId = currentUserId})]

\* what getLeaderboard returns, given the ranking it computed; the filter by
\* followingIds keeps the order of rankedUsers, which the sort by rank keeps
LeaderboardResult(currentUserId, fetched, rankedUsers) ==
  LET IsFollowed(e) == \E f \in follows : f.followerId = currentUserId
                                          /\ f.followingId = e.id
  IN [called |-> TRUE,
      currentUserId |-> currentUserId,
      fetched |-> fetched,
      rankedUsers |-> rankedUsers,
      topTen |-> TopTen(rankedUsers),
      currentUser |-> <<CurrentUser(currentUserId, rankedUsers, follows)>>,
      followingRankings |-> SelectSeq(rankedUsers, IsFollowed),
      totalUsers |-> Len(rankedUsers)]

\* getLeaderboard(currentUserId), with the users fetched in the order fetched
GetLeaderboard(currentUserId, fetched) ==
  /\ \E rankedUsers \in {RankedUsers(fetched, lbScans, follows)} :
       lbResult' = LeaderboardResult(currentUserId, fetched, rankedUsers)
  /\ UNCHANGED outsideLeaderboard

InitLeaderboard ==
  /\ OtpQuiet
  /\ users = SocUserRows
  /\ userSeq = Cardinality(SocUsers)
  /\ regCalls = [c \in RegCalls |-> RegIdle]
  /\ follows = LbFollows
  /\ followSeq = Cardinality(follows)
  /\ socCalls = [c \in SocCalls |-> SocIdle]
  /\ lastFollow = NoFollow
  /\ UploadQuiet
  /\ lbScans \in [SocUsers -> ScanLists]
  /\ lbResult = LbNone
  /\ FetchQuiet
  /\ LikesQuiet
  /\ StreakQuiet
  /\ FeedQuiet

NextLeaderboard ==
  \E u \in SocCallers, fetched \in FetchOrders : GetLeaderboard(u, fetched)

SpecLeaderboard == InitLeaderboard /\ [][NextLeaderboard]_vars

\* a leaderboard of more than ten users: their phone numbers, ids and rows
LongPhones == <<"+101", "+102", "+103", "+104", "+105", "+106", "+107", "+108",
                "+109", "+110", "+111">>
LongUsers == {Cuid(n) : n \in 1..Len(LongPhones)}
LongUserRows ==
  {[id |-> Cuid(n), phoneNumber |-> LongPhones[n], profilePictureUrl |-> "dicebear"] :
     n \in 1..Len(LongPhones)}
\* the orders findMany returns them in: by id, ascending or descending
LongFetchOrders ==
  {[n \in 1..Len(LongPhones) |-> Cuid(n)],
   [n \in 1..Len(LongPhones) |-> Cuid(Len(LongPhones) + 1 - n)]}
\* their images: one each, but for at most one user without any
LongScans ==
  {scans \in [LongUsers -> {<<>>, <<4>>, <<6>>}] :
     Cardinality({u \in LongUsers : scans[u] = <<>>}) <= 1}

InitTopTen ==
  /\ OtpQuiet
  /\ users = LongUserRows
  /\ userSeq = Len(LongPhones)
  /\ regCalls = [c \in RegCalls |-> RegIdle]
  /\ follows = LbFollows
  /\ followSeq = Cardinality(follows)
  /\ socCalls = [c \in SocCalls |-> SocIdle]
  /\ lastFollow = NoFollow
  /\ UploadQuiet
  /\ lbScans \in LongScans
  /\ lbResult = LbNone
  /\ FetchQuiet
  /\ LikesQuiet
  /\ StreakQuiet
  /\ FeedQuiet

NextTopTen ==
  \E u \in SocCallers, fetched \in LongFetchOrders : GetLeaderboard(u, fetched)

SpecTopTen == InitTopTen /\ [][NextTopTen]_vars


(***************************************************************************)
(* Fetch helper: GeminiService.fetchImageAsBase64                          *)
(***************************************************************************)
ImageUrls == {"https://res/a.png", "https://res/b.png"}

\* what one attempt can meet: a response that is not OK, an error thrown by
\* the import, the fetch or the read of the body, or an OK response with a
\* body of some length
BodySizes == {0, 99, 100, 4096}
FetchOutcomes ==
  {[kind |-> "notOk", bytes |-> 0], [kind |-> "throws", bytes |-> 0]}
    \cup {[kind |-> "ok", bytes |-> n] : n \in BodySizes}

\* the attempt reaches `return buffer.toString('base64')`
Accepted(outcome) == outcome.kind = "ok" /\ ~(outcome.bytes < MinImageBytes)

\* buffer.toString('base64') of the body read in the given attempt
Base64(imageUrl, attempt, outcome) ==
  <<"base64", imageUrl, attempt, outcome.bytes>>

\* the error the failed attempt raises inside the try block
AttemptError(outcome) ==
  IF outcome.kind = "notOk" THEN "Failed to fetch image"
  ELSE IF outcome.kind = "throws" THEN "fetch error"
  ELSE "Received invalid or empty image data"

\* both failure paths: `if (attempt < maxRetries) { sleep; continue }`, else throw
AfterFailureMutant(attempt) == "sleep"
AfterFailure(attempt) == IF attempt < MaxRetries THEN "sleep" ELSE "thrown"

\* the loop head: `attempt <= maxRetries`, else the function falls off its end
LoopHead(attempt) == IF attempt <= MaxRetries THEN "fetch" ELSE "returned"

\* the call, and `let attempt = 1` with the first test of the loop head
FetchStart(imageUrl) ==
  /\ fetchCall.pc \in {"idle", "returned", "thrown"}
  /\ fetchCall' = [FetchIdle EXCEPT !.pc = LoopHead(1), !.imageUrl = imageUrl,
                                    !.attempt = 1]
  /\ UNCHANGED outsideFetch

\* one pass through the try block, up to the return, the throw or the sleep
FetchAttempt(outcome) ==
  /\ fetchCall.pc = "fetch"
  /\ LET history == Append(fetchCall.history, outcome)
     IN IF Accepted(outcome)
          THEN fetchCall' =
                 [fetchCall EXCEPT !.pc = "returned", !.history = history,
                    !.result = [type |-> "ok",
                                data |-> Base64(fetchCall.imageUrl,
                                                fetchCall.attempt, outcome)]]
        ELSE IF AfterFailure(fetchCall.attempt) = "sleep"
          THEN fetchCall' = [fetchCall EXCEPT !.pc = "sleep", !.history = history]
        ELSE fetchCall' =
               [fetchCall EXCEPT !.pc = "thrown", !.history = history,
                  !.result = [type |-> "BadRequestException",
                              message |-> <<"Failed to fetch image for analysis after",
                                            MaxRetries, "attempts",
                                            AttemptError(outcome)>>]]
  /\ UNCHANGED outsideFetch

\* `await this.sleep(delayMs); continue`: attempt++ and the loop head
FetchSleep ==
  /\ fetchCall.pc = "sleep"
  /\ fetchCall' =
       [fetchCall EXCEPT !.pc = LoopHead(fetchCall.attempt + 1),
          !.attempt = fetchCall.attempt + 1,
          !.sleeps = fetchCall.sleeps + 1,
          !.slept = fetchCall.slept + DelayMs,
          !.result = IF LoopHead(fetchCall.attempt + 1) = "returned"
                       THEN [type |-> "undefined"] ELSE fetchCall.result]
  /\ UNCHANGED outsideFetch

InitFetch ==
  /\ OtpQuiet
  /\ users = {}
  /\ userSeq = 0
  /\ regCalls = [c \in RegCalls |-> RegIdle]
  /\ SocialQuiet
  /\ UploadQuiet
  /\ LeaderboardQuiet
  /\ FetchQuiet
  /\ LikesQuiet
  /\ StreakQuiet
  /\ FeedQuiet

NextFetch ==
  \/ \E imageUrl \in ImageUrls : FetchStart(imageUrl)
  \/ \E outcome \in FetchOutcomes : FetchAttempt(outcome)
  \/ FetchSleep

\* every attempt ends (the fetch answers or fails) and every timer fires
SpecFetch ==
  /\ InitFetch
  /\ [][NextFetch]_vars
  /\ WF_vars(\E outcome \in FetchOutcomes : FetchAttempt(outcome))
  /\ WF_vars(FetchSleep)


(***************************************************************************)
(* Scan streak: AuthService.getUserStats and calculateScanStreak           *)
(***************************************************************************)
\* toISOString().split('T')[0]: the UTC day of an instant
DayOf(t) == t \div DayLength

\* Array.from(new Set(...)).sort().reverse(): the days, most recent first
RECURSIVE SortedDays(_)
SortedDays(days) ==
  IF days = {} THEN <<>>
  ELSE LET latest == CHOOSE d \in days : \A e \in days : e <= d
       IN <<latest>> \o SortedDays(days \ {latest})

\* the for loop: one more day while the next date is the expected one, the
\* expected one moving a day back each time
RECURSIVE StreakLoop(_, _, _)
StreakLoop(uniqueDates, i, expectedDate) ==
  IF i > Len(uniqueDates) THEN 0
  ELSE IF uniqueDates[i] = expectedDate
         THEN 1 + StreakLoop(uniqueDates, i + 1, expectedDate - 1)
         ELSE 0

\* calculateScanStreak over the createdAt values findMany returned, at the
\* instant at
CalculateScanStreak(createdAts, at) ==
  IF createdAts = {} THEN 0
  ELSE LET uniqueDates == SortedDays({DayOf(t) : t \in createdAts})
           today == DayOf(at)
           yesterday == DayOf(at - DayLength)
       IN IF uniqueDates[1] # today /\ uniqueDates[1] # yesterday
            THEN 0
            ELSE StreakLoop(uniqueDates, 1, today)

\* half a day passes
StreakTick ==
  /\ statsNow < StreakDays * DayLength - 1
  /\ statsNow' = statsNow + 1
  /\ statsCall' = StatsIdle
  /\ UNCHANGED <<scanDates, outsideStreak>>

\* an upload of the user stores an Image row: createdAt @default(now())
StreakScan ==
  /\ statsNow \notin scanDates
  /\ scanDates' = scanDates \cup {statsNow}
  /\ statsCall' = StatsIdle
  /\ UNCHANGED <<statsNow, outsideStreak>>

\* getUserStats, its scanStreak
GetUserStats ==
  /\ statsCall' = [pc |-> "done",
                   scanStreak |-> CalculateScanStreak(scanDates, statsNow)]
  /\ UNCHANGED <<statsNow, scanDates, outsideStreak>>

InitStreak ==
  /\ OtpQuiet
  /\ users = SocUserRows
  /\ userSeq = Cardinality(SocUsers)
  /\ regCalls = [c \in RegCalls |-> RegIdle]
  /\ SocialQuiet
  /\ UploadQuiet
  /\ LeaderboardQuiet
  /\ FetchQuiet
  /\ LikesQuiet
  /\ StreakQuiet
  /\ FeedQuiet

NextStreak ==
  \/ StreakTick
  \/ StreakScan
  \/ GetUserStats

SpecStreak == InitStreak /\ [][NextStreak]_vars


(***************************************************************************)
(* Following feed: SocialService.getFollowingFeed                          *)
(***************************************************************************)
\* the Image rows of the feed: two of user 2 and one of user 3 between them
FeedImageRows ==
  {[id |-> Cuid(1), userId |-> Cuid(2), publicId |-> 1],
   [id |-> Cuid(2), userId |-> Cuid(3), publicId |-> 2],
   [id |-> Cuid(3), userId |-> Cuid(2), publicId |-> 3]}

\* createdAt @default(now()): the n-th Image row created is the n-th in time
CreatedAt(image) == image.id[2]

\* follow.findMany({where: {followerId: userId}}) mapped to followingId
FollowingIdsMutant(rows, userId) ==
  {f.followerId : f \in {g \in rows : g.followingId = userId}}
FollowingIds(rows, userId) ==
  {f.followingId : f \in {g \in rows : g.followerId = userId}}

\* orderBy: {createdAt: 'desc'}, as the ids of the rows
RECURSIVE NewestFirst(_)
NewestFirst(rows) ==
  IF rows = {} THEN <<>>
  ELSE LET newest == CHOOSE i \in rows : \A j \in rows : CreatedAt(j) <= CreatedAt(i)
       IN <<newest.id>> \o NewestFirst(rows \ {newest})

\* skip and take
FeedPage(ordered, skip, take) ==
  [k \in 1..(IF Len(ordered) - skip < 0 THEN 0
             ELSE IF Len(ordered) - skip < take THEN Len(ordered) - skip
             ELSE take) |-> ordered[skip + k]]

\* getFollowingFeed: the following list; an empty one returns []
FeedFollowing(c, userId, page, limit) ==
  /\ feedCalls[c].pc \in {"idle", "done"}
  /\ LET followingIds == FollowingIds(follows, userId)
         call == [FeedIdle EXCEPT !.userId = userId, !.skip = (page - 1) * limit,
                                  !.limit = limit, !.followingIds = followingIds]
     IN feedCalls' = [feedCalls EXCEPT ![c] =
          IF followingIds = {} THEN [call EXCEPT !.pc = "done"]
          ELSE [call EXCEPT !.pc = "images"]]
  /\ UNCHANGED outsideFeed

\* getFollowingFeed: image.findMany and the answer
FeedImages(c) ==
  /\ feedCalls[c].pc = "images"
  /\ LET call == feedCalls[c]
         found == {i \in images : i.userId \in call.followingIds}
     IN feedCalls' = [feedCalls EXCEPT ![c] =
          [call EXCEPT !.pc = "done",
                       !.result = FeedPage(NewestFirst(found), call.skip, call.limit)]]
  /\ UNCHANGED outsideFeed

InitFeed ==
  /\ OtpQuiet
  /\ users = SocUserRows
  /\ userSeq = Cardinality(SocUsers)
  /\ regCalls = [c \in RegCalls |-> RegIdle]
  /\ SocialQuiet
  /\ images = FeedImageRows
  /\ imageSeq = 3
  /\ auras = {}
  /\ auraSeq = 0
  /\ cloud = {1, 2, 3}
  /\ cloudSeq = 3
  /\ upCalls = [c \in UpCalls |-> UpIdle]
  /\ LeaderboardQuiet
  /\ FetchQuiet
  /\ LikesQuiet
  /\ StreakQuiet
  /\ FeedQuiet

NextFeed ==
  \/ \E a \in SocCallers, b \in SocUsers : FollowFindUser(1, a, b)
  \/ FollowFindExisting(1)
  \/ FollowCreate(1)
  \/ \E a \in SocCallers, b \in SocUsers : UnfollowFind(1, a, b)
  \/ UnfollowDelete(1)
  \/ \E c \in FeedCalls, u \in SocCallers, page \in FeedPages, limit \in FeedLimits :
        FeedFollowing(c, u, page, limit)
  \/ \E c \in FeedCalls : FeedImages(c)

SpecFeed == InitFeed /\ [][NextFeed]_vars


(***************************************************************************)
(* Claims about the OTP flow (SpecOtp)                                     *)
(***************************************************************************)
MatchingOtps(call) ==
  {o \in otps : o.phoneNumber = call.phoneNumber /\ o.code = call.code}

\* slot c has just run verifyOtp's findFirst
VerifyFindStep(c) ==
  /\ otpCalls[c].pc \in {"idle", "done"}
  /\ otpCalls'[c] # otpCalls[c]

\* C1: an OTP expires after its window. Every OTP row has expiresAt =
\* createdAt + 10 minutes; a verifyOtp that finds a row found one that
\* matches, is unused and has expiresAt > now; and a verifyOtp for which
\* every matching row has expiresAt <= now ends with UnauthorizedException
\* and changes no row.
C1_OtpExpiresAfterWindow ==
  /\ [](\A o \in otps : o.expiresAt = o.createdAt + OtpTtlMinutes)
  /\ [][\A c \in OtpCalls : VerifyFindStep(c) =>
          /\ otpCalls'[c].pc = "found" =>
               \E o \in MatchingOtps(otpCalls'[c]) :
                  /\ o.id = otpCalls'[c].otpId
                  /\ ~o.isUsed
                  /\ o.expiresAt > now
          /\ (\A o \in MatchingOtps(otpCalls'[c]) : o.expiresAt <= now) =>
               /\ otpCalls'[c].pc = "done"
               /\ otpCalls'[c].result = "Unauthorized"
               /\ otps' = otps]_vars

\* C1 witness: a verifyOtp was refused while an unused matching row exists
\* whose window ends exactly now, and no matching row is still in its window.
C1_Witness ==
  /\ otpCalls[1].pc = "done"
  /\ otpCalls[1].result = "Unauthorized"
  /\ \E o \in MatchingOtps(otpCalls[1]) : ~o.isUsed /\ o.expiresAt = now
  /\ \A o \in MatchingOtps(otpCalls[1]) : o.expiresAt <= now /\ ~o.isUsed

\* the cleanup has just run its first deleteMany
CleanupVerifiedStep ==
  /\ cleanup.pc \in {"idle", "done"}
  /\ cleanup'.pc = "verified"

\* the cleanup has just run its second deleteMany and summed up
CleanupExpiredStep ==
  /\ cleanup.pc = "verified"
  /\ cleanup'.pc = "done"

\* C15: the cron cleanup and the manual one alike remove, in their first
\* deleteMany, every row with isUsed = true and nothing else, and in their
\* second every unused row created more than 30 minutes before the cleanup
\* began and nothing else, so that an unused row created within those 30
\* minutes stays as it is; the counts are the numbers of rows removed, and
\* totalDeleted is their sum.
C15_CleanupRemovesUsedAndOld ==
  [][/\ CleanupVerifiedStep =>
          /\ otps' = {o \in otps : ~o.isUsed}
          /\ cleanup'.thirtyMinutesAgo = now - CleanupAgeMinutes
          /\ cleanup'.verified = Cardinality(otps) - Cardinality(otps')
     /\ CleanupExpiredStep =>
          /\ otps' \subseteq otps
          /\ \A o \in otps :
               o \in otps' <=>
                 (o.isUsed \/ o.createdAt >= cleanup.thirtyMinutesAgo)
          /\ cleanup'.verified = cleanup.verified
          /\ cleanup'.expired = Cardinality(otps) - Cardinality(otps')
          /\ cleanup'.total = cleanup'.verified + cleanup'.expired]_vars

\* a manual cleanup that began at minute 40 removed the unused row created at
\* minute 0 and kept the unused row created exactly 30 minutes before it
C15_Witness ==
  /\ now = MaxTime
  /\ cleanup.pc = "done"
  /\ cleanup.kind = "manual"
  /\ cleanup.verified = 0
  /\ cleanup.expired = 1
  /\ cleanup.total = 1
  /\ otpSeq = 2
  /\ \E o \in otps : ~o.isUsed /\ o.createdAt = now - CleanupAgeMinutes

\* verifyOtp would accept the row now, given its phone number and code
Verifiable(o) == ValidOtp(o, o.phoneNumber, o.code, now)

\* C25: the OTP cleanup never removes an OTP that verifyOtp would still
\* accept. Every unused row a cleanup deletes is expired, and an unused,
\* unexpired row stays in the table, as it is or marked used, in any
\* interleaving of sendOtp, verifyOtp and the cleanup.
C25_CleanupKeepsVerifiable ==
  [][/\ \A o \in otps \ otps' :
          \/ o.isUsed
          \/ o.expiresAt <= now
          \/ [o EXCEPT !.isUsed = TRUE] \in otps'
     /\ \A o \in otps :
          Verifiable(o) => (o \in otps' \/ [o EXCEPT !.isUsed = TRUE] \in otps')
     /\ CleanupExpiredStep =>
          \A o \in otps \ otps' : ~o.isUsed /\ o.expiresAt < now]_vars

\* C25 witness: a cleanup deleted an old unused row and left the unused row
\* that verifyOtp still accepts.
C25_Witness ==
  /\ cleanup.pc = "done"
  /\ cleanup.expired = 1
  /\ Cardinality(otps) = 1
  /\ \E o \in otps : Verifiable(o)

\* verifyOtp in slot c has returned an answer for the OTP row it found
Verified(c) ==
  /\ otpCalls[c].pc = "done"
  /\ otpCalls[c].result \in {"token", "register"}

\* C24: an OTP is single-use. Each OTP row is accepted by at most one
\* successful verifyOtp call, in any interleaving of verifyOtp calls: no two
\* calls have succeeded on the same row.
C24_OtpSingleUse ==
  \A c1, c2 \in OtpCalls :
     (Verified(c1) /\ Verified(c2) /\ otpCalls[c1].otpId = otpCalls[c2].otpId)
       => c1 = c2

\* C23: sendOtp's outcome on SMS failure depends on the environment. With
\* Twilio configured and the SMS failing, sendOtp throws BadRequestException
\* when nodeEnv is 'production' and answers 'OTP sent successfully'
\* otherwise; without Twilio it always answers success; and the answer
\* carries the code only when nodeEnv is 'development'.
C23_SmsFailureByEnvironment ==
  sendCall.called =>
    /\ (config.twilio /\ ~sendCall.delivered) =>
          sendCall.answer.result = IF config.nodeEnv = "production"
                                     THEN "BadRequestException"
                                     ELSE "OTP sent successfully"
    /\ (~config.twilio \/ sendCall.delivered) =>
          sendCall.answer.result = "OTP sent successfully"
    /\ sendCall.answer.withCode
          <=> (sendCall.answer.result = "OTP sent successfully"
               /\ config.nodeEnv = "development")

\* C23 witness: Twilio is configured outside production and development,
\* the SMS failed, and sendOtp answered success without the code, the row
\* stored.
C23_Witness ==
  /\ sendCall.called
  /\ config = [twilio |-> TRUE, nodeEnv |-> "test"]
  /\ ~sendCall.delivered
  /\ sendCall.answer = [result |-> "OTP sent successfully", withCode |-> FALSE]
  /\ otps # {}

(***************************************************************************)
(* Claims about registration (SpecUsers)                                   *)
(***************************************************************************)
\* C2: uniqueness of phone number. No two User rows have the same
\* phoneNumber, whatever the interleaving of register calls and of the
\* test-upload endpoint's test-user creation.
C2_PhoneNumberUnique ==
  \A u1 \in users, u2 \in users : u1.phoneNumber = u2.phoneNumber => u1 = u2

\* C2 witness: two requests for the same, not yet registered phone number both
\* passed their existence check; one created the user, the other's create was
\* rejected by the database.
C2_Witness ==
  /\ regCalls[1].pc = "done"
  /\ regCalls[2].pc = "done"
  /\ regCalls[1].phoneNumber = regCalls[2].phoneNumber
  /\ regCalls[1].result \in {"token", "upload"}
  /\ regCalls[2].result \in {"InternalError", "BadRequest"}
  /\ \E u \in users : u.phoneNumber = regCalls[1].phoneNumber

\* slot c has just received a register call and looked the phone number up
RegisterCalled(c) ==
  /\ regCalls[c].pc \in {"idle", "done"}
  /\ regCalls'[c] # regCalls[c]
  /\ regCalls'[c].op = "register"

\* C12: a register call whose phoneNumber has a User row ends at its lookup
\* with ConflictException, with no profile-picture upload and the User rows
\* as they were; a register call that ended with ConflictException never
\* uploaded, and register ends with ConflictException in no other case.
C12_RegisterExistingConflicts ==
  /\ [](\A c \in RegCalls :
          (regCalls[c].op = "register" /\ regCalls[c].result = "Conflict") =>
             /\ regCalls[c].pc = "done"
             /\ regCalls[c].uploads = 0
             /\ \E u \in users : u.phoneNumber = regCalls[c].phoneNumber)
  /\ [][\A c \in RegCalls :
          /\ (RegisterCalled(c)
              /\ \E u \in users : u.phoneNumber = regCalls'[c].phoneNumber) =>
               /\ regCalls'[c].pc = "done"
               /\ regCalls'[c].result = "Conflict"
               /\ regCalls'[c].uploads = 0
               /\ users' = users
          /\ (RegisterCalled(c)
              /\ ~\E u \in users : u.phoneNumber = regCalls'[c].phoneNumber) =>
               regCalls'[c].result # "Conflict"]_vars

\* a register call that brought a profile picture ended with
\* ConflictException against the user an earlier register had created
C12_Witness ==
  /\ regCalls[1].op = "register" /\ regCalls[1].result = "token"
  /\ regCalls[2].op = "register" /\ regCalls[2].result = "Conflict"
  /\ regCalls[2].hasPicture
  /\ regCalls[2].uploads = 0
  /\ regCalls[2].phoneNumber = regCalls[1].phoneNumber
  /\ Cardinality(users) = 1

\* C28: of two register calls for the same phone number that has no User
\* yet, one creates the User and returns a token and the other ends with
\* ConflictException, in every interleaving.
C28_ConcurrentRegisterConflicts ==
  \A c1, c2 \in RegCalls :
     (/\ c1 # c2
      /\ regCalls[c1].op = "register" /\ regCalls[c1].pc = "done"
      /\ regCalls[c2].op = "register" /\ regCalls[c2].pc = "done"
      /\ regCalls[c1].phoneNumber = regCalls[c2].phoneNumber
      /\ regCalls[c1].result = "token")
       => regCalls[c2].result = "Conflict"

(***************************************************************************)
(* Claims about sign-in (SpecAuth)                                         *)
(***************************************************************************)
\* slot c's verifyOtp has just looked the user up and answered
VerifyLookupStep(c) ==
  /\ otpCalls[c].pc = "marked"
  /\ otpCalls'[c].pc = "done"

\* C13: a verifyOtp that succeeds answers with an access token for the user
\* and isNewUser: false exactly when a User with its phoneNumber exists at
\* its user lookup, and otherwise with the registration prompt,
\* isNewUser: true and no access token; and no step of verifyOtp adds or
\* removes a User row.
C13_VerifyAnswersByUser ==
  /\ [](\A c \in OtpCalls :
          /\ otpCalls[c].result = "token" =>
               otpCalls[c].isNewUser = "false" /\ otpCalls[c].sub # NoUser
          /\ otpCalls[c].result = "register" =>
               otpCalls[c].isNewUser = "true" /\ otpCalls[c].sub = NoUser)
  /\ [][\A c \in OtpCalls :
          /\ VerifyLookupStep(c) =>
               IF \E u \in users : u.phoneNumber = otpCalls[c].phoneNumber
                 THEN /\ otpCalls'[c].result = "token"
                      /\ \E u \in users : /\ u.phoneNumber = otpCalls[c].phoneNumber
                                          /\ u.id = otpCalls'[c].sub
                 ELSE otpCalls'[c].result = "register"
          /\ otpCalls'[c] # otpCalls[c] =>
               {u.id : u \in users'} = {u.id : u \in users}]_vars

\* a verifyOtp answered with the token of a user that register had created
C13_Witness ==
  /\ otpCalls[1].pc = "done"
  /\ otpCalls[1].result = "token"
  /\ otpCalls[1].isNewUser = "false"
  /\ regCalls[1].result = "token"
  /\ \E u \in users : /\ u.id = otpCalls[1].sub
                      /\ u.phoneNumber = otpCalls[1].phoneNumber
                      /\ u.phoneNumber = regCalls[1].phoneNumber

\* C14: registration happens after OTP verification. Whenever a register
\* call for phoneNumber p has created its User and answered with the token, a
\* verifyOtp for p has marked an OTP row of p as used before (no row is
\* deleted under SpecAuth, so the row is still there).
C14_RegistrationAfterVerification ==
  \A c \in RegCalls :
     (regCalls[c].op = "register" /\ regCalls[c].result = "token") =>
        \E o \in otps : o.phoneNumber = regCalls[c].phoneNumber /\ o.isUsed

(***************************************************************************)
(* Claims about the social graph (SpecSocial)                              *)
(***************************************************************************)
\* C3: uniqueness of the follower/following pair. There is at most one Follow
\* row for any ordered pair (followerId, followingId), whatever the
\* interleaving of followUser and unfollowUser calls.
C3_FollowPairUnique ==
  \A f1 \in follows, f2 \in follows :
     (f1.followerId = f2.followerId /\ f1.followingId = f2.followingId) => f1 = f2

\* C3 witness: two concurrent followUser calls both passed the existence
\* check; one created the row and the other's create was rejected.
C3_Witness ==
  /\ socCalls[1].op = "follow" /\ socCalls[1].result = "ok"
  /\ socCalls[2].op = "follow" /\ socCalls[2].result = "InternalError"
  /\ follows # {}

CallPair(call) == <<call.followerId, call.followingId>>

\* slot c's followUser has just created its row and answered
FollowedStep(c) ==
  /\ socCalls[c].op = "follow" /\ socCalls[c].pc = "create"
  /\ socCalls'[c].result = "ok"

\* slot c's unfollowUser has just deleted its row and answered
UnfollowedStep(c) ==
  /\ socCalls[c].op = "unfollow" /\ socCalls[c].pc = "delete"
  /\ socCalls'[c].result = "ok"

\* C5: follow/unfollow toggles state. A successful followUser(a, b) puts
\* (a, b) in the followed pairs and answers following: true; a successful
\* unfollowUser(a, b) takes it out and answers following: false; neither
\* changes another pair; and a successful unfollowUser(a, b) right after a
\* successful followUser(a, b) restores the followed pairs to what they were.
C5_FollowUnfollowToggles ==
  [][\A c \in SocCalls :
       /\ FollowedStep(c) =>
            /\ CallPair(socCalls[c]) \in Pairs(follows')
            /\ socCalls'[c].following = "true"
            /\ Pairs(follows') \ {CallPair(socCalls[c])} =
                 Pairs(follows) \ {CallPair(socCalls[c])}
       /\ UnfollowedStep(c) =>
            /\ CallPair(socCalls[c]) \notin Pairs(follows')
            /\ socCalls'[c].following = "false"
            /\ Pairs(follows') \ {CallPair(socCalls[c])} =
                 Pairs(follows) \ {CallPair(socCalls[c])}
            /\ (lastFollow.state = "followed" /\ lastFollow.pair = CallPair(socCalls[c]))
                 => Pairs(follows') = lastFollow.before]_vars

\* C5 witness: a followUser was undone by the unfollowUser right after it,
\* while the follower follows somebody else too.
C5_Witness ==
  /\ lastFollow.state = "undone"
  /\ \E c \in SocCalls : /\ socCalls[c].op = "unfollow"
                         /\ socCalls[c].result = "ok"
                         /\ socCalls[c].following = "false"
  /\ \E p \in Pairs(follows) : p[1] = lastFollow.pair[1]
  /\ Pairs(follows) = lastFollow.before

\* slot c's followUser has just looked its Follow row up
FollowLookupStep(c) ==
  /\ socCalls[c].op = "follow" /\ socCalls[c].pc = "findFollow"
  /\ socCalls'[c] # socCalls[c]

\* C11: a followUser(a, b) that looks the Follow row up while a row (a, b)
\* exists ends there with ConflictException and leaves the Follow rows as they
\* are; no followUser call ends with ConflictException otherwise.
C11_FollowExistingConflicts ==
  [][\A c \in SocCalls :
       /\ (FollowLookupStep(c) /\ CallPair(socCalls[c]) \in Pairs(follows)) =>
            /\ socCalls'[c].pc = "done"
            /\ socCalls'[c].result = "Conflict"
            /\ follows' = follows
       /\ (socCalls'[c] # socCalls[c] /\ socCalls'[c].op = "follow"
           /\ socCalls'[c].result = "Conflict") =>
            /\ FollowLookupStep(c)
            /\ CallPair(socCalls[c]) \in Pairs(follows)
            /\ follows' = follows]_vars

\* a followUser ended with ConflictException while the other slot's earlier
\* followUser of a pair had succeeded and its row is still there
C11_Witness ==
  /\ socCalls[1].op = "follow" /\ socCalls[1].result = "ok"
  /\ socCalls[2].op = "follow" /\ socCalls[2].result = "Conflict"
  /\ Cardinality(follows) = 1
  /\ followSeq = 1

(***************************************************************************)
(* Claims about the upload pipeline (SpecUpload)                           *)
(***************************************************************************)
AurasOf(imageId) == {a \in auras : a.imageId = imageId}

\* C4: one Aura per Image. Every Image row has at most one Aura row
\* referencing it, and no two Aura rows share an imageId, for any sequence of
\* uploadImage and deleteImage calls.
C4_OneAuraPerImage ==
  /\ \A i \in images : Cardinality(AurasOf(i.id)) <= 1
  /\ \A a1 \in auras, a2 \in auras : a1.imageId = a2.imageId => a1 = a2

\* C4 witness: two uploads stored an Aura each, one image was deleted again
\* and the other still has its Aura.
C4_Witness ==
  /\ auraSeq = 2
  /\ \E i \in images : Cardinality(AurasOf(i.id)) = 1
  /\ \E c \in UpCalls : /\ upCalls[c].op = "delete"
                        /\ upCalls[c].pc = "done"
                        /\ upCalls[c].result = Ok
  /\ Cardinality(images) = 1

Pipeline == <<"gemini", "cloudinary", "image", "aura">>

\* slot c has just taken a step of uploadImage
UploadStep(c) ==
  /\ upCalls'[c] # upCalls[c]
  /\ upCalls'[c].op = "upload"

\* C8: the AI analysis precedes storage. The Cloudinary upload is in flight
\* only with the Gemini analysis returned; the steps an uploadImage call has
\* completed are always a prefix of Gemini analysis, Cloudinary upload, Image
\* row, Aura row, each table growing only with the earlier steps completed;
\* and a call whose Gemini analysis fails stores no asset and creates no row.
C8_AnalysisPrecedesStorage ==
  /\ [](\A c \in UpCalls : upCalls[c].op = "upload" =>
          /\ upCalls[c].steps = SubSeq(Pipeline, 1, Len(upCalls[c].steps))
          /\ upCalls[c].pc = "gemini" => upCalls[c].steps = <<>>
          /\ upCalls[c].pc = "cloudinary" => upCalls[c].steps = <<"gemini">>
          /\ upCalls[c].pc = "image" => upCalls[c].steps = <<"gemini", "cloudinary">>
          /\ upCalls[c].pc = "aura" => upCalls[c].steps = <<"gemini", "cloudinary", "image">>
          /\ upCalls[c].failedAt = "gemini" => upCalls[c].steps = <<>>)
  /\ [][\A c \in UpCalls : UploadStep(c) =>
          /\ cloud' # cloud => upCalls[c].steps = <<"gemini">>
          /\ images' # images => upCalls[c].steps = <<"gemini", "cloudinary">>
          /\ auras' # auras => upCalls[c].steps = <<"gemini", "cloudinary", "image">>
          /\ upCalls'[c].failedAt = "gemini" =>
               /\ upCalls'[c].pc = "done"
               /\ cloud' = cloud /\ images' = images /\ auras' = auras]_vars

\* C8 witness: one upload went through all four steps and a later one ended at
\* a failed Gemini analysis, leaving one asset, one Image and one Aura.
C8_Witness ==
  /\ upCalls[1].op = "upload"
  /\ upCalls[1].failedAt = "gemini"
  /\ cloudSeq = 1 /\ imageSeq = 1 /\ auraSeq = 1
  /\ Cardinality(cloud) = 1 /\ Cardinality(images) = 1 /\ Cardinality(auras) = 1

\* C9: external failures of uploadImage are rethrown as bad-request errors.
\* Whichever step fails after validation, the call ends with a
\* BadRequestException.
C9_FailuresAreBadRequests ==
  \A c \in UpCalls :
     (upCalls[c].op = "upload" /\ upCalls[c].pc = "done" /\
      upCalls[c].failedAt \in {"gemini", "cloudinary", "image", "aura"})
       => upCalls[c].result.type = "BadRequestException"

\* C9 witness: the Aura row creation failed after the Image row was created,
\* and the call ended with a BadRequestException.
C9_Witness ==
  /\ upCalls[1].op = "upload"
  /\ upCalls[1].pc = "done"
  /\ upCalls[1].failedAt = "aura"
  /\ upCalls[1].result.type = "BadRequestException"
  /\ \E i \in images : AurasOf(i.id) = {}

\* the user owns the image
Owns(userId, imageId) == \E i \in images : i.id = imageId /\ i.userId = userId

\* C17: deleteImage deletes an image and all its associated data. A
\* successful deleteImage leaves neither the Image row nor its Aura row and
\* changes no other Image or Aura row; called by a user who does not own the
\* image it fails with NotFoundException and deletes neither a row nor a
\* Cloudinary asset, and only an owner's call goes on to the asset.
C17_DeleteRemovesImageAndAura ==
  [][\A c \in UpCalls :
       /\ \A n \in 1..MaxAssets, u \in UpUsers :
            DeleteFind(c, Cuid(n), u) =>
              IF Owns(u, Cuid(n))
                THEN upCalls'[c].pc = "destroy"
                ELSE /\ upCalls'[c].pc = "done"
                     /\ upCalls'[c].result.type = "NotFoundException"
                     /\ images' = images /\ auras' = auras /\ cloud' = cloud
       /\ (DeleteRow(c) /\ upCalls'[c].result = Ok) =>
            /\ \A i \in images' : i.id # upCalls[c].imageId
            /\ \A a \in auras' : a.imageId # upCalls[c].imageId
            /\ images' = {i \in images : i.id # upCalls[c].imageId}
            /\ auras' = {a \in auras : a.imageId # upCalls[c].imageId}
            /\ images' # images]_vars

\* C17 witness: of two uploaded images one was deleted by its owner, and the
\* other user's attempt on the remaining one ended with NotFoundException; the
\* remaining image still has its Aura.
C17_Witness ==
  /\ imageSeq = 2 /\ auraSeq = 2
  /\ Cardinality(images) = 1 /\ Cardinality(auras) = 1
  /\ \E i \in images : Cardinality(AurasOf(i.id)) = 1
  /\ upCalls[1].op = "delete" /\ upCalls[1].pc = "done" /\ upCalls[1].result = Ok
  /\ upCalls[2].op = "delete" /\ upCalls[2].pc = "done"
  /\ upCalls[2].result.type = "NotFoundException"

\* the file passes the three checks of uploadImage
Acceptable(file) ==
  /\ file.present
  /\ file.mimetype \in AllowedMimeTypes
  /\ file.size <= MaxFileSize

\* C19: uploadImage rejects with BadRequestException a missing file, a file
\* whose MIME type is not allowed and a file larger than the maximum, while a
\* file of exactly the maximum size goes on to the analysis; a rejection
\* happens before any Gemini or Cloudinary call and creates no row.
C19_InvalidFilesRejected ==
  [][\A c \in Uploaders, file \in Files, u \in UpUsers :
       UploadStart(c, file, u) =>
         IF Acceptable(file)
           THEN upCalls'[c].pc = "gemini"
           ELSE /\ upCalls'[c].pc = "done"
                /\ upCalls'[c].result.type = "BadRequestException"
                /\ upCalls'[c].failedAt = "validate"
                /\ upCalls'[c].steps = <<>>
                /\ images' = images /\ auras' = auras /\ cloud' = cloud
                /\ cloudSeq' = cloudSeq]_vars

\* C19 witness: after one stored upload, a file one byte over the maximum
\* was rejected and the tables hold the rows of the first upload only.
C19_Witness ==
  /\ upCalls[1].op = "upload"
  /\ upCalls[1].pc = "done"
  /\ upCalls[1].failedAt = "validate"
  /\ upCalls[1].result = [type |-> "BadRequestException", message |-> "File size exceeds"]
  /\ cloudSeq = 1 /\ imageSeq = 1 /\ auraSeq = 1
  /\ Cardinality(images) = 1 /\ Cardinality(auras) = 1

\* C26: uploadImage is all-or-nothing for the database. With every
\* uploadImage call returned, by a result or by an error, each Image row has
\* exactly one Aura row.
C26_UploadAllOrNothing ==
  (\A c \in Uploaders : upCalls[c].pc \in {"idle", "done"}) =>
     \A i \in images : Cardinality(AurasOf(i.id)) = 1

(***************************************************************************)
(* Claims about likes (SpecLikes)                                          *)
(***************************************************************************)
\* C16: the like count never goes below 0. In every reachable state
\* Aura.likes >= 0, for any sequence and any interleaving of likeAura and
\* unlikeAura calls on the same aura.
C16_LikesNeverNegative == \A a \in auras : a.likes >= 0

\* the row of the aura a call is about, in a table
AuraOf(rows, call) == CHOOSE a \in AuraById(rows, call.auraId) : TRUE

\* slot c has just run the aura.update of a call
LikeUpdateStep(c) ==
  /\ likeCalls[c].pc = "update"
  /\ likeCalls'[c].pc = "done"

\* C27: like and share counters lose no update. Whatever a likeAura call
\* read before, its update adds exactly 1 to the likes stored at that
\* moment and leaves shares alone, and a shareAura call's update adds
\* exactly 1 to the stored shares and leaves likes alone, no other row
\* changing; a call for an aura that does not exist ends with
\* NotFoundException and changes nothing.
C27_CountersLoseNoUpdate ==
  [][\A c \in LikeCalls :
       /\ (LikeUpdateStep(c) /\ likeCalls[c].op \in {"like", "share"}) =>
            LET old == AuraOf(auras, likeCalls[c])
                new == AuraOf(auras', likeCalls[c])
            IN /\ new.likes = old.likes + (IF likeCalls[c].op = "like" THEN 1 ELSE 0)
               /\ new.shares = old.shares + (IF likeCalls[c].op = "share" THEN 1 ELSE 0)
               /\ auras' \ {new} = auras \ {old}
               /\ likeCalls'[c].result = "ok"
               /\ likeCalls'[c].totalLikes = new.likes
               /\ likeCalls'[c].totalShares = new.shares
       /\ \A op \in {"like", "unlike", "share"}, auraId \in LikeTargets :
            (LikeFind(c, op, auraId) /\ AuraById(auras, auraId) = {}) =>
              /\ likeCalls'[c].pc = "done"
              /\ likeCalls'[c].result = "NotFoundException"
              /\ auras' = auras]_vars

\* C27 witness: two likeAura calls read likes = 0 side by side; the first
\* has completed and stored likes = 1 while the second, still holding the 0
\* it read, is about to run its update.
C27_Witness ==
  /\ likeCalls[1] = [LikeIdle EXCEPT !.op = "like", !.pc = "done", !.auraId = Cuid(1),
                                     !.result = "ok", !.totalLikes = 1]
  /\ likeCalls[2] = [LikeIdle EXCEPT !.op = "like", !.pc = "update", !.auraId = Cuid(1)]
  /\ likeSeq = 2
  /\ \A a \in auras : a.likes = 1 /\ a.shares = 0

(***************************************************************************)
(* Claims about the scan streak (SpecStreak)                               *)
(***************************************************************************)
ScanDays == {DayOf(t) : t \in scanDates}

\* the length of the run of consecutive scan days that ends at day d
RECURSIVE RunEndingAt(_)
RunEndingAt(d) == IF d \in ScanDays THEN 1 + RunEndingAt(d - 1) ELSE 0

MostRecentScanDay == CHOOSE d \in ScanDays : \A e \in ScanDays : e <= d

\* C18: scanStreak is the number of consecutive days with a scan, and a
\* streak may start today or yesterday. With the most recent scan day today
\* or yesterday, scanStreak is the length of the run of consecutive days
\* with a scan that ends at that day; with an older one, or no scan, it is 0.
C18_StreakEndsTodayOrYesterday ==
  statsCall.pc = "done" =>
    statsCall.scanStreak =
      IF ScanDays = {} THEN 0
      ELSE IF MostRecentScanDay \in {DayOf(statsNow), DayOf(statsNow) - 1}
             THEN RunEndingAt(MostRecentScanDay)
             ELSE 0

(***************************************************************************)
(* Claims about the following feed (SpecFeed)                              *)
(***************************************************************************)
ImageById(imageId) == CHOOSE i \in images : i.id = imageId

\* C20: the following feed contains images of followed users only. The
\* following list a call works with is the set of users its caller follows
\* when the call reads it, and an empty one ends the call with an empty
\* result; every image returned is owned by a user of that list, the images
\* are in descending creation order, and at most limit images are returned.
C20_FeedOfFollowedOnly ==
  [][\A c \in FeedCalls :
       /\ (feedCalls[c].pc \in {"idle", "done"} /\ feedCalls'[c] # feedCalls[c]) =>
            /\ \A v \in SocUsers :
                  v \in feedCalls'[c].followingIds
                    <=> <<feedCalls'[c].userId, v>> \in Pairs(follows)
            /\ (\A v \in SocUsers : <<feedCalls'[c].userId, v>> \notin Pairs(follows)) =>
                  feedCalls'[c].pc = "done" /\ feedCalls'[c].result = <<>>
       /\ (feedCalls[c].pc = "images" /\ feedCalls'[c].pc = "done") =>
            LET result == feedCalls'[c].result
            IN /\ \A k \in 1..Len(result) :
                    /\ \E i \in images : i.id = result[k]
                    /\ ImageById(result[k]).userId \in feedCalls[c].followingIds
               /\ \A k \in 1..(Len(result) - 1) :
                    CreatedAt(ImageById(result[k])) > CreatedAt(ImageById(result[k + 1]))
               /\ Len(result) <= feedCalls[c].limit]_vars

\* C20 witness: the caller follows users 2 and 3 and its feed of limit 2
\* holds the two newest of their three images, the newest first.
C20_Witness ==
  /\ feedCalls[1].pc = "done"
  /\ feedCalls[1].followingIds = {Cuid(2), Cuid(3)}
  /\ feedCalls[1].limit = 2
  /\ feedCalls[1].result = <<Cuid(3), Cuid(2)>>

(***************************************************************************)
(* Claims about the leaderboard (SpecLeaderboard)                          *)
(***************************************************************************)
\* x may stand before y: its (totalConfidence, averageConfidence, totalScans)
\* is lexicographically >= that of y
LexGreaterEq(x, y) ==
  \/ x.totalConfidence > y.totalConfidence
  \/ /\ x.totalConfidence = y.totalConfidence
     /\ \/ x.averageConfidence > y.averageConfidence
        \/ /\ x.averageConfidence = y.averageConfidence
           /\ x.totalScans >= y.totalScans

\* x and y are equal on all three sort keys
Tied(x, y) ==
  /\ x.totalConfidence = y.totalConfidence
  /\ x.averageConfidence = y.averageConfidence
  /\ x.totalScans = y.totalScans

\* where a user stood in the list fetched from the database
FetchIndex(fetched, userId) ==
  CHOOSE i \in 1..Len(fetched) : fetched[i] = userId

\* C6: every ranking getLeaderboard returns holds exactly the fetched users
\* with at least one scan, each with its total and average confidence rounded
\* to 2 decimals, ranked 1..n, and any two consecutive entries x before y have
\* (x.totalConfidence, x.averageConfidence, x.totalScans) lexicographically
\* >= that of y.
C6_LeaderboardOrdered ==
  lbResult.called =>
    LET ranked == lbResult.rankedUsers
    IN /\ {ranked[i].id : i \in 1..Len(ranked)} = {u \in SocUsers : lbScans[u] # <<>>}
       /\ Len(ranked) = Cardinality({u \in SocUsers : lbScans[u] # <<>>})
       /\ \A i \in 1..Len(ranked) :
            /\ ranked[i].rank = i
            /\ ranked[i].totalScans = Len(lbScans[ranked[i].id])
            /\ ranked[i].totalConfidence
                 = RoundTotal(TotalConfidence(lbScans[ranked[i].id]))
            /\ ranked[i].averageConfidence
                 = RoundAverage(TotalConfidence(lbScans[ranked[i].id]),
                                Len(lbScans[ranked[i].id]))
       /\ \A i \in 1..(Len(ranked) - 1) : LexGreaterEq(ranked[i], ranked[i + 1])

\* three users were ranked against the fetch order: the first two decided by
\* total confidence, the last two by total scans
C6_Witness ==
  /\ lbResult.called
  /\ Len(lbResult.rankedUsers) = 3
  /\ lbResult.rankedUsers[1].totalConfidence > lbResult.rankedUsers[2].totalConfidence
  /\ lbResult.rankedUsers[2].totalConfidence = lbResult.rankedUsers[3].totalConfidence
  /\ lbResult.rankedUsers[2].averageConfidence = lbResult.rankedUsers[3].averageConfidence
  /\ lbResult.rankedUsers[2].totalScans > lbResult.rankedUsers[3].totalScans
  /\ lbResult.fetched[1] = lbResult.rankedUsers[3].id
  /\ lbResult.fetched[3] = lbResult.rankedUsers[1].id

\* C7: in every ranking getLeaderboard returns, two users equal on total
\* confidence, average confidence and total scans stand in the relative order
\* in which they were fetched; and a call that fetches the same database state
\* in the same order as the call before it assigns the same ranks.
C7_LeaderboardStable ==
  /\ [](lbResult.called =>
          LET ranked == lbResult.rankedUsers
          IN \A i, j \in 1..Len(ranked) :
               (i < j /\ Tied(ranked[i], ranked[j])) =>
                 FetchIndex(lbResult.fetched, ranked[i].id)
                   < FetchIndex(lbResult.fetched, ranked[j].id))
  /\ [][(/\ lbResult.called
         /\ lbResult'.called
         /\ lbResult'.fetched = lbResult.fetched
         /\ lbScans' = lbScans
         /\ follows' = follows)
          => lbResult'.rankedUsers = lbResult.rankedUsers]_vars

\* three tied users were ranked, fetched in an order that is neither by id nor
\* by followers, and a second call with another current user ranked them again
C7_Witness ==
  /\ lbResult.called
  /\ lbResult.currentUserId = Cuid(2)
  /\ Len(lbResult.rankedUsers) = 3
  /\ Tied(lbResult.rankedUsers[1], lbResult.rankedUsers[2])
  /\ Tied(lbResult.rankedUsers[2], lbResult.rankedUsers[3])
  /\ lbResult.fetched = <<Cuid(3), Cuid(1), Cuid(2)>>
  /\ lbResult.rankedUsers[1].id = Cuid(3)
  /\ lbResult.rankedUsers[1].followers < lbResult.rankedUsers[3].followers

\* the users the database holds images of
Scanned == {u \in DOMAIN lbScans : lbScans[u] # <<>>}

\* q holds x
Holds(q, x) == \E i \in 1..Len(q) : q[i] = x

\* C21: getLeaderboard ranks exactly the users with at least one image.
\* Ranks are 1..N without gap or duplicate, totalUsers is N, topTen is the
\* first min(10, N) entries of the ranking in rank order, and
\* followingRankings is exactly the ranked users the current user follows,
\* in ascending rank, each with its rank of the full ranking.
C21_RanksUsersWithImages ==
  lbResult.called =>
    LET ranked == lbResult.rankedUsers
        N == Cardinality(Scanned)
        following == lbResult.followingRankings
    IN /\ Len(ranked) = N
       /\ {ranked[i].id : i \in 1..N} = Scanned
       /\ \A i \in 1..N : ranked[i].rank = i
       /\ lbResult.totalUsers = N
       /\ Len(lbResult.topTen) = IF N < 10 THEN N ELSE 10
       /\ \A i \in 1..Len(lbResult.topTen) : lbResult.topTen[i] = ranked[i]
       /\ \A k \in 1..Len(following) : Holds(ranked, following[k])
       /\ \A k \in 1..(Len(following) - 1) : following[k].rank < following[k + 1].rank
       /\ {following[k].id : k \in 1..Len(following)}
            = {u \in Scanned : <<lbResult.currentUserId, u>> \in Pairs(follows)}

\* C21 witness: eleven users are ranked, the top ten stop at rank 10, and the
\* current user follows the users ranked 10 and 11.
C21_Witness ==
  /\ lbResult.called
  /\ lbResult.totalUsers = 11
  /\ Len(lbResult.topTen) = 10
  /\ Len(lbResult.followingRankings) = 2
  /\ lbResult.followingRankings[1].rank = 10
  /\ lbResult.followingRankings[2].rank = 11

\* C22: the currentUser entry is the current user's own entry of the full
\* ranking, with its global rank also beyond 10, when the user has an image;
\* otherwise it is a default entry of rank N + 1 with totalScans,
\* totalConfidence and averageConfidence 0 and the number of Follow rows
\* whose followingId is the current user as followers.
C22_CurrentUserEntry ==
  lbResult.called =>
    LET ranked == lbResult.rankedUsers
        entry == lbResult.currentUser[1]
    IN /\ Len(lbResult.currentUser) = 1
       /\ entry.id = lbResult.currentUserId
       /\ IF lbResult.currentUserId \in Scanned
            THEN /\ entry.rank \in 1..Len(ranked)
                 /\ ranked[entry.rank] = entry
            ELSE /\ entry.rank = Cardinality(Scanned) + 1
                 /\ entry.totalScans = 0
                 /\ entry.totalConfidence = 0
                 /\ entry.averageConfidence = 0
                 /\ entry.followers
                      = Cardinality({f \in follows :
                                       f.followingId = lbResult.currentUserId})

\* C22 witness: the current user has an image and stands at rank 11, outside
\* the top ten.
C22_Witness ==
  /\ lbResult.called
  /\ Len(lbResult.topTen) = 10
  /\ lbResult.currentUser[1].rank = 11
  /\ lbResult.currentUser[1].totalScans = 1

(***************************************************************************)
(* Claims about the fetch helper (SpecFetch)                               *)
(***************************************************************************)
FetchEnded == fetchCall.pc \in {"returned", "thrown"}

\* C10: a call of fetchImageAsBase64 always ends; it makes at most 3 attempts;
\* when it returns, it returns the data of the one accepted attempt (OK with
\* at least 100 bytes), which is its last, every attempt before it having
\* failed; it has slept 2 s once after each failed attempt but the last
\* attempt of the call; and when 3 attempts failed it has thrown a
\* BadRequestException and returned nothing.
C10_FetchThreeAttempts ==
  /\ [](LET h == fetchCall.history
            failed == {i \in 1..Len(h) : ~Accepted(h[i])}
        IN /\ Len(h) <= MaxRetries
           /\ fetchCall.pc = "fetch" => fetchCall.sleeps = Len(h)
           /\ fetchCall.pc = "sleep" => fetchCall.sleeps = Len(h) - 1
           /\ FetchEnded => fetchCall.sleeps = Len(h) - 1
           /\ fetchCall.slept = fetchCall.sleeps * DelayMs
           /\ fetchCall.pc = "returned" =>
                /\ failed = 1..(Len(h) - 1)
                /\ fetchCall.result
                     = [type |-> "ok",
                        data |-> Base64(fetchCall.imageUrl, Len(h), h[Len(h)])]
           /\ fetchCall.pc = "thrown" =>
                /\ Len(h) = MaxRetries
                /\ failed = 1..MaxRetries
                /\ fetchCall.result.type = "BadRequestException"
           /\ (Len(h) = MaxRetries /\ failed = 1..MaxRetries) =>
                fetchCall.pc = "thrown")
  /\ (fetchCall.pc = "fetch") ~> FetchEnded

\* a call failed three times, by a response that was not OK, by a thrown error
\* and by a body of 99 bytes, slept twice and ended with the exception
C10_Witness ==
  /\ fetchCall.pc = "thrown"
  /\ fetchCall.history = <<[kind |-> "notOk", bytes |-> 0],
                           [kind |-> "throws", bytes |-> 0],
                           [kind |-> "ok", bytes |-> 99]>>
  /\ fetchCall.sleeps = 2
  /\ fetchCall.result.type = "BadRequestException"

====
